---- MODULE Spec2Model ----
(***************************************************************************)
(* waybg, crates/wayland-core: the layer-shell video wallpaper renderer.   *)
(*                                                                         *)
(* Two threads are modelled.  The calling (decode) thread runs             *)
(* play_video_layer_shell: it spawns the render thread, waits on the       *)
(* readiness channel, builds the GStreamer pipeline and loops pulling      *)
(* samples into the frame mailbox.  The render thread runs                 *)
(* run_layer_renderer: it binds the compositor globals, creates one layer  *)
(* surface per target output and then dispatches compositor events to the  *)
(* handlers of LayerWallpaperState.  The threads share the frame mailbox   *)
(* (frame_store), the stop flag and the one-shot readiness channel.        *)
(*                                                                         *)
(* The compositor, the media pipeline and the kernel are the environment:  *)
(* their answers are drawn with \E from small sets.                        *)
(***************************************************************************)
EXTENDS Integers, Sequences, FiniteSets, TLC

(***************************************************************************)
(* Program constants.                                                      *)
(***************************************************************************)
DMABUF_POOL_SIZE == 2

MAX_IMPORTED_DMABUF_IN_FLIGHT == 3

(***************************************************************************)
(* Bounds of the model.                                                    *)
(***************************************************************************)
\* samples the pipeline delivers in one run
MaxFrames == 2

\* outputs the compositor advertises
MaxOutputs == 2

\* frame callbacks outstanding on one surface (the code sets no limit)
MaxCallbacks == 2

\* size/scale/transform notifications the compositor sends in one run
MaxGeometryEvents == 1

\* events one blocking_dispatch call reads and hands to the handlers
MaxBatch == 2

\* the horizon of the clock, in ms
MaxClock == 600

\* how many record_frame calls a recorder taken on its own receives
MaxRecorded == 3

\* how many write calls it takes to write one snapshot to the file
MaxChunks == 2

\* the longest of the sample lists that are enumerated
MaxSamples == 5

\* how many times the controller is ticked
MaxTicks == 3

\* how many times an imported buffer is submitted
MaxImports == 3

\* the longest of the profile lists that are enumerated
MaxProfiles == 2

(***************************************************************************)
(* Values.                                                                 *)
(***************************************************************************)
None == [some |-> FALSE, v |-> ""]

Some(x) == [some |-> TRUE, v |-> x]

Ok == [ok |-> TRUE, msg |-> <<>>]

Err(m) == [ok |-> FALSE, msg |-> m]

\* DmabufMode
DmabufModes == {"Auto", "On", "Off"}

\* ScaleMode
ScaleModes == {"Fit", "Fill"}

\* wl_output::Transform values the compositor sends in the model
Transforms == {"Normal", "_90"}

\* str::trim on the output names the model requests
Trim(s) == IF s = " " THEN "" ELSE IF s = " DP-1 " THEN "DP-1" ELSE s

(***************************************************************************)
(* Strings that the code takes apart are sequences of one-character        *)
(* strings.                                                                *)
(***************************************************************************)
\* char::is_whitespace, for the characters the inputs of the model hold
Whitespace == {" ", "\t", "\n"}

RECURSIVE trim_start(_)
trim_start(s) ==
    IF s # <<>> /\ Head(s) \in Whitespace THEN trim_start(Tail(s)) ELSE s

RECURSIVE trim_end(_)
trim_end(s) ==
    IF s # <<>> /\ s[Len(s)] \in Whitespace
    THEN trim_end(SubSeq(s, 1, Len(s) - 1)) ELSE s

\* str::trim
trim(s) == trim_end(trim_start(s))

AsciiUpper ==
    <<"A", "B", "C", "D", "E", "F", "G", "H", "I", "J", "K", "L", "M",
      "N", "O", "P", "Q", "R", "S", "T", "U", "V", "W", "X", "Y", "Z">>

AsciiLower ==
    <<"a", "b", "c", "d", "e", "f", "g", "h", "i", "j", "k", "l", "m",
      "n", "o", "p", "q", "r", "s", "t", "u", "v", "w", "x", "y", "z">>

\* str::to_ascii_lowercase: only the letters A..Z change
to_ascii_lowercase(s) ==
    [i \in DOMAIN s |->
        IF \E k \in DOMAIN AsciiUpper : AsciiUpper[k] = s[i]
        THEN AsciiLower[CHOOSE k \in DOMAIN AsciiUpper : AsciiUpper[k] = s[i]]
        ELSE s[i]]

BLANK_VIDEO_URI == <<"b", "l", "a", "n", "k", ":", "/", "/">>

\* an is_blank_source that compares the input as given, untrimmed and in its own case
is_blank_source_verbatim(input) ==
    \/ input = <<"b", "l", "a", "n", "k">>
    \/ input = <<"n", "o", "n", "e">>
    \/ input = BLANK_VIDEO_URI

\* is_blank_source
is_blank_source(input) ==
    LET normalized == to_ascii_lowercase(trim(input))
    IN  \/ normalized = <<"b", "l", "a", "n", "k">>
        \/ normalized = <<"n", "o", "n", "e">>
        \/ normalized = BLANK_VIDEO_URI

\* a video file to play
VideoFile == <<"v", ".", "m", "p", "4">>

\* sources play_video is given: spellings of the blank source, near misses of
\* them, and a video file
SourceInputs ==
    {BLANK_VIDEO_URI, VideoFile, <<>>, <<" ">>,
     <<"b", "l", "a", "n", "k">>,
     <<"n", "o", "n", "e">>,
     <<" ", "B", "l", "a", "n", "K", "\n">>,
     <<"\t", "N", "O", "N", "E", " ">>,
     <<"B", "L", "A", "N", "K", ":", "/", "/", " ">>,
     <<"b", "l", "a", "n", "k", ":", "/">>,
     <<"b", "l", " ", "a", "n", "k">>,
     <<"n", "o", "n", "e", "s">>,
     <<"b", "l", "a", "n", "k", ":", "/", "/", "x">>,
     <<"n", "u", "l", "l">>}

(***************************************************************************)
(* The parsers of WAYBG_BACKEND, WAYBG_SCALE_MODE and WAYBG_DMABUF.        *)
(***************************************************************************)
BACKEND_AUTO == <<"a", "u", "t", "o">>

BACKEND_GSTREAMER == <<"g", "s", "t", "r", "e", "a", "m", "e", "r">>

BACKEND_LAYER_SHELL == <<"l", "a", "y", "e", "r", "-", "s", "h", "e", "l", "l">>

SCALE_MODE_FIT == <<"f", "i", "t">>

SCALE_MODE_FILL == <<"f", "i", "l", "l">>

SCALE_MODE_STRETCH == <<"s", "t", "r", "e", "t", "c", "h">>

DMABUF_MODE_AUTO == <<"a", "u", "t", "o">>

DMABUF_MODE_ON == <<"o", "n">>

DMABUF_MODE_OFF == <<"o", "f", "f">>

\* Result::Ok with its value
OkOf(v) == [ok |-> TRUE, value |-> v]

\* the io::Error of a parser: the variable its message names, the value it quotes
\* and the values it lists
InvalidInput(variable, other, expected) ==
    Err([variable |-> variable, other |-> other, expected |-> expected])

\* parse_scale_mode matching the value as given
parse_scale_mode_verbatim(value) ==
    IF value \in {<<>>, SCALE_MODE_FILL, <<"c", "o", "v", "e", "r">>}
    THEN OkOf("Fill")
    ELSE IF value \in {SCALE_MODE_FIT, <<"c", "o", "n", "t", "a", "i", "n">>}
    THEN OkOf("Fit")
    ELSE IF value = SCALE_MODE_STRETCH
    THEN OkOf("Stretch")
    ELSE InvalidInput("WAYBG_SCALE_MODE", value,
                      <<SCALE_MODE_FILL, SCALE_MODE_FIT, SCALE_MODE_STRETCH>>)

\* parse_backend; niri is what is_niri_session() returns
parse_backend(value, niri) ==
    LET lowered == to_ascii_lowercase(value)
    IN  IF lowered \in {<<>>, BACKEND_AUTO}
        THEN OkOf(IF niri THEN "LayerShell" ELSE "GstreamerWindow")
        ELSE IF lowered = BACKEND_GSTREAMER
        THEN OkOf("GstreamerWindow")
        ELSE IF lowered = BACKEND_LAYER_SHELL
        THEN OkOf("LayerShell")
        ELSE InvalidInput("WAYBG_BACKEND", lowered,
                          <<BACKEND_AUTO, BACKEND_GSTREAMER, BACKEND_LAYER_SHELL>>)

parse_scale_mode(value) ==
    LET lowered == to_ascii_lowercase(value)
    IN  IF lowered \in {<<>>, SCALE_MODE_FILL, <<"c", "o", "v", "e", "r">>}
        THEN OkOf("Fill")
        ELSE IF lowered \in {SCALE_MODE_FIT, <<"c", "o", "n", "t", "a", "i", "n">>}
        THEN OkOf("Fit")
        ELSE IF lowered = SCALE_MODE_STRETCH
        THEN OkOf("Stretch")
        ELSE InvalidInput("WAYBG_SCALE_MODE", lowered,
                          <<SCALE_MODE_FILL, SCALE_MODE_FIT, SCALE_MODE_STRETCH>>)

parse_dmabuf_mode(value) ==
    LET lowered == to_ascii_lowercase(value)
    IN  IF lowered \in {<<>>, DMABUF_MODE_AUTO}
        THEN OkOf("Auto")
        ELSE IF lowered \in {DMABUF_MODE_ON, <<"t", "r", "u", "e">>, <<"1">>, <<"y", "e", "s">>}
        THEN OkOf("On")
        ELSE IF lowered \in {DMABUF_MODE_OFF, <<"f", "a", "l", "s", "e">>, <<"0">>, <<"n", "o">>}
        THEN OkOf("Off")
        ELSE InvalidInput("WAYBG_DMABUF", lowered,
                          <<DMABUF_MODE_AUTO, DMABUF_MODE_ON, DMABUF_MODE_OFF>>)

\* the values the parsers are given
ModeInputs ==
    {<<>>,
     <<"a", "u", "t", "o">>,
     <<"A", "U", "T", "O">>,
     <<"g", "s", "t", "r", "e", "a", "m", "e", "r">>,
     <<"G", "S", "t", "r", "e", "a", "m", "e", "r">>,
     <<"l", "a", "y", "e", "r", "-", "s", "h", "e", "l", "l">>,
     <<"l", "a", "y", "e", "r", "s", "h", "e", "l", "l">>,
     <<"f", "i", "t">>,
     <<"F", "i", "t">>,
     <<"f", "i", "l", "l">>,
     <<"F", "I", "L", "L">>,
     <<"s", "t", "r", "e", "t", "c", "h">>,
     <<"c", "o", "n", "t", "a", "i", "n">>,
     <<"c", "o", "v", "e", "r">>,
     <<"C", "o", "v", "e", "r">>,
     <<"o", "n">>,
     <<"O", "N">>,
     <<"o", "f", "f">>,
     <<"t", "r", "u", "e">>,
     <<"1">>,
     <<"y", "e", "s">>,
     <<"Y", "e", "s">>,
     <<"f", "a", "l", "s", "e">>,
     <<"0">>,
     <<"n", "o">>,
     <<"u", "n", "k", "n", "o", "w", "n">>,
     <<"b", "a", "d">>,
     <<"m", "a", "y", "b", "e">>,
     <<" ", "a", "u", "t", "o">>,
     <<"f", "i", "t", " ">>,
     <<"2">>,
     <<"n", "o", "n", "e">>}

\* names an output may carry (None: the compositor gave it no name)
OutputNames == {None, Some("DP-1"), Some("HDMI-A-1")}

RequestedNames == {None, Some(" "), Some("DP-1"), Some("eDP-1")}

RECURSIVE SeqsUpTo(_, _)
SeqsUpTo(S, n) ==
    IF n = 0 THEN {<<>>}
    ELSE LET shorter == SeqsUpTo(S, n - 1)
         IN  shorter \cup {Append(q, x) : q \in {r \in shorter : Len(r) = n - 1}, x \in S}

(***************************************************************************)
(* The FPS statistics.  Rates are integers and a ratio is given in         *)
(* hundredths; the inputs are such that the product the code rounds is     *)
(* rounded the same way in f64 and exactly.                                *)
(***************************************************************************)
\* f64::clamp
clamp(x, lo, hi) == IF x < lo THEN lo ELSE IF x > hi THEN hi ELSE x

\* f64::round of num / den for num >= 0 and den > 0: halves round away from zero
round(num, den) == (2 * num + den) \div (2 * den)

\* the sequence with x put before the first element greater than it
RECURSIVE insert_sorted(_, _)
insert_sorted(sorted, x) ==
    IF sorted = <<>> THEN <<x>>
    ELSE IF x < Head(sorted) THEN <<x>> \o sorted
    ELSE <<Head(sorted)>> \o insert_sorted(Tail(sorted), x)

\* sort_by(f64::total_cmp): ascending
RECURSIVE sort_ascending(_)
sort_ascending(s) ==
    IF s = <<>> THEN <<>>
    ELSE insert_sorted(sort_ascending(Tail(s)), Head(s))

\* percentile_low_fps indexing the samples in the order given
percentile_low_fps_unsorted(samples, keep_ratio) ==
    IF samples = <<>> THEN 0
    ELSE LET tail_ratio == clamp(100 - keep_ratio, 0, 100)
             index == round((Len(samples) - 1) * tail_ratio, 100)
         IN  samples[index + 1]

\* percentile_low_fps; keep_ratio in hundredths
percentile_low_fps(samples, keep_ratio) ==
    IF samples = <<>> THEN 0
    ELSE LET tail_ratio == clamp(100 - keep_ratio, 0, 100)
             sorted == sort_ascending(samples)
             index == round((Len(sorted) - 1) * tail_ratio, 100)
         IN  sorted[index + 1]

\* the rates of the sample lists
Rates == {30, 45, 60}

\* the sample lists: all lists of up to MaxSamples rates, the list of the test and
\* two lists long enough for a keep ratio of 0.95 to skip the minimum
SampleLists ==
    SeqsUpTo(Rates, MaxSamples)
        \cup {<<120, 90, 60, 45, 30>>,
              <<110, 100, 90, 80, 70, 60, 50, 40, 30, 20, 10>>,
              <<10, 20, 30, 40, 50, 60, 70, 80, 90, 100, 110>>}

\* keep ratios in hundredths, two of them outside 0..1
KeepRatios == {-50, 0, 50, 90, 95, 99, 100, 150}

(***************************************************************************)
(* waybg-core: profiles, schedules and the AutoController.  A time of day  *)
(* is in minutes, a date and time is a weekday (1 is Monday) and a time of *)
(* day.                                                                    *)
(***************************************************************************)
DigitValue ==
    [c \in {"0", "1", "2", "3", "4", "5", "6", "7", "8", "9"} |->
        CASE c = "0" -> 0 [] c = "1" -> 1 [] c = "2" -> 2 [] c = "3" -> 3
          [] c = "4" -> 4 [] c = "5" -> 5 [] c = "6" -> 6 [] c = "7" -> 7
          [] c = "8" -> 8 [] c = "9" -> 9]

\* parse_hhmm: NaiveTime::parse_from_str(input, "%H:%M") of a five-character input
\* (others among ScheduleTimes have no digits); None unless it is an hour below 24,
\* a colon and a minute below 60
parse_hhmm(input) ==
    IF /\ Len(input) = 5
       /\ input[3] = ":"
       /\ \A k \in {1, 2, 4, 5} : input[k] \in DOMAIN DigitValue
    THEN LET hour == 10 * DigitValue[input[1]] + DigitValue[input[2]]
             minute == 10 * DigitValue[input[4]] + DigitValue[input[5]]
         IN  IF hour < 24 /\ minute < 60 THEN Some(60 * hour + minute) ELSE None
    ELSE None

\* ScheduleWindow::is_active
is_active(schedule, now) ==
    IF schedule.weekdays # <<>>
       /\ \A k \in 1..Len(schedule.weekdays) : schedule.weekdays[k] # now.weekday
    THEN FALSE
    ELSE LET start == parse_hhmm(schedule.start)
             end == parse_hhmm(schedule.end)
             current == now.time
         IN  IF ~(start.some /\ end.some) THEN FALSE
             ELSE IF start.v = end.v THEN TRUE
             ELSE IF start.v < end.v THEN current >= start.v /\ current < end.v
             ELSE current >= start.v \/ current < end.v

\* Iterator::find: the element of s at the first of the positions that pass the
\* test, if any
find(s, hits) ==
    IF hits = {} THEN None
    ELSE Some(s[CHOOSE k \in hits : \A j \in hits : k <= j])

\* the first profile of that name
find_named(profiles, name) ==
    find(profiles, {k \in 1..Len(profiles) : profiles[k].name = name})

\* the first profile whose schedule is active
find_scheduled(profiles, now) ==
    find(profiles, {k \in 1..Len(profiles) :
                       /\ profiles[k].schedule.some
                       /\ is_active(profiles[k].schedule.v, now)})

\* pick_profile with the schedule consulted before the manual override
pick_profile_schedule_first(config, manual_override, now) ==
    LET overridden == IF manual_override.some
                      THEN find_named(config.profiles, manual_override.v)
                      ELSE None
        scheduled == find_scheduled(config.profiles, now)
        default == IF config.settings.default_profile.some
                   THEN find_named(config.profiles, config.settings.default_profile.v)
                   ELSE None
    IN  IF scheduled.some THEN scheduled
        ELSE IF overridden.some THEN overridden
        ELSE IF default.some THEN default
        ELSE IF config.profiles = <<>> THEN None
        ELSE Some(Head(config.profiles))

\* ProfilesConfig::pick_profile
pick_profile(config, manual_override, now) ==
    LET overridden == IF manual_override.some
                      THEN find_named(config.profiles, manual_override.v)
                      ELSE None
        scheduled == find_scheduled(config.profiles, now)
        default == IF config.settings.default_profile.some
                   THEN find_named(config.profiles, config.settings.default_profile.v)
                   ELSE None
    IN  IF overridden.some THEN overridden
        ELSE IF scheduled.some THEN scheduled
        ELSE IF default.some THEN default
        ELSE IF config.profiles = <<>> THEN None
        ELSE Some(Head(config.profiles))

\* Profile::render_targets
render_targets(profile) ==
    IF profile.outputs = <<>>
    THEN <<[output |-> None, video |-> profile.video]>>
    ELSE [k \in 1..Len(profile.outputs) |->
             [output |-> Some(profile.outputs[k].output),
              video |-> profile.outputs[k].video]]

\* summarize_render_targets: the text as the sequence of the pieces it is put
\* together from
RECURSIVE join_targets(_)
join_targets(targets) ==
    IF targets = <<>> THEN <<>>
    ELSE LET target == Head(targets)
             piece == <<IF target.output.some THEN target.output.v ELSE "default",
                        "=", target.video>>
         IN  IF Len(targets) = 1 THEN piece
             ELSE piece \o <<", ">> \o join_targets(Tail(targets))

summarize_render_targets(targets) ==
    IF targets = <<>> THEN <<"<no targets>">>
    ELSE IF Len(targets) = 1 /\ ~targets[1].output.some THEN <<targets[1].video>>
    ELSE join_targets(targets)

\* opt is not Some(x)
IsNot(opt, x) == ~opt.some \/ opt.v # x

\* should_restart of tick comparing the profile and its targets only
should_restart_ignoring_mute(active, profile_name, active_video, mute) ==
    \/ IsNot(active.active_profile_name, profile_name)
    \/ IsNot(active.active_render_signature, active_video)

\* should_restart of AutoController::tick
should_restart(active, profile_name, active_video, mute) ==
    \/ IsNot(active.active_profile_name, profile_name)
    \/ IsNot(active.active_render_signature, active_video)
    \/ IsNot(active.active_mute, mute)

\* AutoController::new
AutoController_new ==
    [active_profile_name |-> None, active_render_signature |-> None,
     active_mute |-> None, running_processes |-> <<>>]

\* no call of the controller yet
NoTick == [op |-> "none", n |-> 0, ok |-> TRUE, changed |-> FALSE,
           active_profile_name |-> "", active_video |-> <<>>, mute |-> FALSE]

\* draining a list of processes and forgetting them
drain_without_terminate(log, processes, n) == log

\* `for mut process in processes.drain(..) { process.terminate(); }` during the
\* n-th call: one terminate per process, in order
drain_and_terminate(log, processes, n) ==
    log \o [k \in 1..Len(processes) |->
               [ev |-> "terminate", id |-> processes[k], during |-> n]]

\* how many processes the log shows spawned
Spawned(log) == Cardinality({k \in 1..Len(log) : log[k].ev = "spawn"})

\* the first `count` targets spawned during the n-th call, with new ids
spawn_each(log, targets, count, mute, n) ==
    log \o [k \in 1..count |->
               [ev |-> "spawn", id |-> Spawned(log) + k, during |-> n,
                input |-> targets[k].video, output |-> targets[k].output,
                mute |-> mute]]

\* a call of spawn_play_process that returned an error
spawn_failed(target, mute, n) ==
    [ev |-> "spawn_failed", id |-> 0, during |-> n, input |-> target.video,
     output |-> target.output, mute |-> mute]

\* the ids of those processes
started_ids(log, count) == [k \in 1..count |-> Spawned(log) + k]

\* the output lists a compositor may advertise
OutputLists == SeqsUpTo(OutputNames, MaxOutputs)

\* dimensions of the decoded video (every sample of one stream has them)
FrameDims == <<4, 2>>

\* layer_surface.configure sizes; 0 x 0 leaves the size to the client
ConfigureSizes == {<<0, 0>>, <<2, 1>>}

\* wl_surface.preferred_buffer_scale values
ScaleFactors == {0, 2}

\* decoder samples: the memory type, the plane count of the video meta, the format
SystemSample == [mem |-> "system", n_planes |-> 1, format |-> "BGRA"]

DmabufSample == [mem |-> "dmabuf", n_planes |-> 1, format |-> "BGRA"]

DmabufNV12Sample == [mem |-> "dmabuf", n_planes |-> 2, format |-> "NV12"]

\* dmabuf samples whose GstVideoMeta reports no plane, or more planes than
\* GST_VIDEO_MAX_PLANES
ZeroPlaneSample == [mem |-> "dmabuf", n_planes |-> 0, format |-> "DMA_DRM"]

FivePlaneSample == [mem |-> "dmabuf", n_planes |-> 5, format |-> "DMA_DRM"]

MalformedSamples == {ZeroPlaneSample, FivePlaneSample}

Samples == {SystemSample, DmabufSample, DmabufNV12Sample}

NoFrame == [kind |-> "None", seq |-> 0, n_planes |-> 0, format |-> ""]

\* reached_eos = false and playback_error = None
NoDrain == [reached_eos |-> FALSE, playback_error |-> FALSE]

\* no draw_surface call in progress
NoDraw == [stage |-> "idle", h |-> "none", prefix |-> "", surface_index |-> 0,
           consumed |-> 0, current_frame |-> NoFrame]

\* METRICS_HISTORY_CAPACITY and METRICS_FLUSH_INTERVAL (in ms)
METRICS_HISTORY_CAPACITY == 900

METRICS_FLUSH_INTERVAL == 200

\* unix_timestamp_ms: the wall clock in ms since the epoch, the epoch being time 0
unix_timestamp_ms(now) == now

\* MetricsRecorder::new at the instant `now`
MetricsRecorder_new(now) ==
    [exists |-> TRUE, previous |-> FALSE, previous_frame_instant |-> 0,
     sample_count |-> 0, samples |-> <<>>, last_fps |-> 0, last_flush_instant |-> now]

\* no function called on its own
NotCalled == [fn |-> "none"]

\* the result of a call that has not returned
Pending == [ok |-> FALSE]

\* no read of the metrics file yet
NotLoaded == [state |-> "idle", began |-> 0, result |-> "none"]

\* the metrics file before anything was written; writes counts the fs::write calls
NoFile ==
    [exists |-> FALSE, sample_count |-> 0, notes |-> <<>>, updated_unix_ms |-> 0,
     recent_fps |-> <<>>, last_fps |-> 0, writes |-> 0]

(***************************************************************************)
(* Pure functions of the decode side.                                      *)
(***************************************************************************)
\* normalize_plane_count: 1..GST_VIDEO_MAX_PLANES planes, anything else is an error
GST_VIDEO_MAX_PLANES == 4

normalize_plane_count(n) == IF n = 0 \/ n > GST_VIDEO_MAX_PLANES THEN Err(<<"invalid dmabuf plane count">>) ELSE Ok

\* sample_to_dmabuf_frame succeeds on dmabuf memory with a valid plane count
sample_to_dmabuf_frame(sample) ==
    IF sample.mem # "dmabuf" THEN Err(<<"memory is not dmabuf-backed">>)
    ELSE normalize_plane_count(sample.n_planes)

\* sample_to_frame_payload: the imported frame when allowed and possible, otherwise
\* the CPU copy of the sample (map_ok: whether the buffer could be mapped and is
\* large enough)
sample_to_frame_payload(sample, allow_dmabuf, seq, map_ok) ==
    IF allow_dmabuf /\ sample_to_dmabuf_frame(sample).ok
    THEN [ok |-> TRUE,
          payload |-> [kind |-> "Dmabuf", seq |-> seq, n_planes |-> sample.n_planes,
                       format |-> sample.format]]
    ELSE IF map_ok
    THEN [ok |-> TRUE,
          payload |-> [kind |-> "Cpu", seq |-> seq, n_planes |-> 1, format |-> "BGRA"]]
    ELSE [ok |-> FALSE, payload |-> NoFrame]

\* the mailbox write of the decode loop: *slot = Some(frame_payload)
StoreFrame_keep_first(slot, payload) == IF slot.kind = "None" THEN payload ELSE slot

StoreFrame(slot, payload) == payload

\* dmabuf_frame_to_video_frame: one plane in ARGB8888/XRGB8888 only
dmabuf_frame_to_video_frame(frame) ==
    frame.n_planes = 1 /\ frame.format \in {"BGRA", "BGRX"}

(***************************************************************************)
(* select_target_outputs.                                                  *)
(***************************************************************************)
RECURSIVE NamedOutputs(_)
NamedOutputs(outputs) ==
    IF outputs = <<>> THEN <<>>
    ELSE (IF Head(outputs).some THEN <<Head(outputs).v>> ELSE <<>>)
         \o NamedOutputs(Tail(outputs))

\* available.join(", ")
RECURSIVE JoinNames(_)
JoinNames(names) ==
    IF names = <<>> THEN <<>>
    ELSE IF Len(names) = 1 THEN names
    ELSE <<Head(names), ", ">> \o JoinNames(Tail(names))

OutputNotFound(requested_name, outputs) ==
    <<"requested output '", requested_name, "' was not found (available outputs: ">>
    \o (IF NamedOutputs(outputs) = <<>> THEN <<"<none named>">>
        ELSE JoinNames(NamedOutputs(outputs)))
    \o <<")">>

select_target_outputs(outputs, requested_output_name) ==
    LET requested_name == IF requested_output_name.some
                          THEN Trim(requested_output_name.v) ELSE ""
        matching == {k \in 1..Len(outputs) : outputs[k] = Some(requested_name)}
        first == CHOOSE k \in matching : \A j \in matching : k <= j
    IN  IF outputs = <<>>
        THEN [ok |-> FALSE, msg |-> <<"no outputs advertised by the compositor">>,
              targets |-> <<>>]
        ELSE IF requested_name = ""
        THEN [ok |-> TRUE, msg |-> <<>>, targets |-> [k \in 1..Len(outputs) |-> k]]
        ELSE IF matching # {}
        THEN [ok |-> TRUE, msg |-> <<>>, targets |-> <<first>>]
        ELSE [ok |-> FALSE, msg |-> OutputNotFound(requested_name, outputs),
              targets |-> <<>>]

(***************************************************************************)
(* LayerWallpaperState: the redraw of one surface.                          *)
(*                                                                         *)
(* A draw function takes the surfaces before the draw and returns the      *)
(* surfaces after it, the Result, and what it asked of the compositor      *)
(* (req): the transport path taken, the buffer attached, the content       *)
(* written (-1 nothing, 0 opaque black, k > 0 the frame with sequence      *)
(* number k), whether a frame callback was requested and whether the       *)
(* surface was committed.  `o` holds what the environment answers during   *)
(* this draw: o.kernel, whether the dma_heap allocation or the descriptor  *)
(* duplication succeeds; o.shm, whether the shared-memory pool creates and *)
(* attaches a buffer ("create": create_buffer fails, which on a buffer of  *)
(* the right size means its canvas was busy and the fallback buffer could  *)
(* not be created; "attach": attach_to fails).                             *)
(***************************************************************************)
DrawOutcomes == [kernel : BOOLEAN, shm : {"ok", "create", "attach"}]

NoReq == [path |-> "none", attach |-> "none", content |-> -1, frame_cb |-> FALSE,
          commit |-> FALSE]

\* WallpaperSurface as pushed by run_layer_renderer
NewSurface(viewport) ==
    [width |-> 1, height |-> 1, scale_factor |-> 1, transform |-> "Normal",
     first_configure |-> TRUE, buffer_width |-> 0, buffer_height |-> 0,
     buffer |-> FALSE, dmabuf_buffers |-> <<>>, imported_dmabuf_frames |-> <<>>,
     viewport |-> viewport]

Max(a, b) == IF a >= b THEN a ELSE b

Min(a, b) == IF a <= b THEN a ELSE b

transform_swaps_axes(transform) == transform \in {"_90", "_270", "Flipped90", "Flipped270"}

\* FramePayload::dimensions, or (1, 1) without a frame
SourceDims(frame) == IF frame.kind = "None" THEN <<1, 1>> ELSE FrameDims

use_compositor_scaling(surface, mode) == surface.viewport /\ mode # "Fit"

\* (buffer_width, buffer_height, buffer_scale) of draw_surface
BufferGeometry(surface, mode, frame) ==
    LET lw == Max(surface.width, 1)
        lh == Max(surface.height, 1)
        sf == Max(surface.scale_factor, 1)
    IN  IF use_compositor_scaling(surface, mode)
        THEN <<SourceDims(frame)[1], SourceDims(frame)[2], 1>>
        ELSE IF transform_swaps_axes(surface.transform)
        THEN <<lh * sf, lw * sf, sf>>
        ELSE <<lw * sf, lh * sf, sf>>

\* what draw_surface hands to draw_surface_shm: the CPU frame, or the CPU copy
\* of a convertible imported frame (0: no frame, the canvas is filled black)
effective_cpu_frame(frame) ==
    IF frame.kind = "Cpu" THEN frame.seq
    ELSE IF frame.kind = "Dmabuf" /\ dmabuf_frame_to_video_frame(frame) THEN frame.seq
    ELSE 0

draw_surface_shm(surfaces, i, cpu_seq, g, o) ==
    LET s == surfaces[i]
        stale == ~s.buffer \/ s.buffer_width # g[1] \/ s.buffer_height # g[2]
        sized == [s EXCEPT !.buffer = TRUE, !.buffer_width = g[1],
                           !.buffer_height = g[2]]
    IN  IF stale /\ o.shm = "create"
        THEN [surfaces |-> surfaces, res |-> Err(<<"failed to create shm buffer">>),
              req |-> [NoReq EXCEPT !.path = "shm"]]
        ELSE IF ~stale /\ o.shm = "create"
        THEN [surfaces |-> surfaces,
              res |-> Err(<<"failed to create fallback shm buffer">>),
              req |-> [NoReq EXCEPT !.path = "shm"]]
        ELSE IF o.shm = "attach"
        THEN [surfaces |-> [surfaces EXCEPT ![i] = sized],
              res |-> Err(<<"failed to attach shm buffer">>),
              req |-> [path |-> "shm", attach |-> "none", content |-> cpu_seq,
                       frame_cb |-> TRUE, commit |-> FALSE]]
        ELSE [surfaces |-> [surfaces EXCEPT ![i] = sized], res |-> Ok,
              req |-> [path |-> "shm", attach |-> "shm", content |-> cpu_seq,
                       frame_cb |-> TRUE, commit |-> TRUE]]

\* the pool ensure_dmabuf_buffers installs: DMABUF_POOL_SIZE fresh, released buffers
NewPool_append(old) == old \o [k \in 1..DMABUF_POOL_SIZE |-> [released |-> TRUE]]

NewPool(old) == [k \in 1..DMABUF_POOL_SIZE |-> [released |-> TRUE]]

ensure_dmabuf_buffers(surfaces, i, g, o) ==
    LET s == surfaces[i]
        needs_recreate == s.dmabuf_buffers = <<>> \/ s.buffer_width # g[1]
                          \/ s.buffer_height # g[2]
    IN  IF ~needs_recreate THEN [surfaces |-> surfaces, res |-> Ok]
        ELSE IF ~o.kernel
        THEN [surfaces |-> surfaces, res |-> Err(<<"dma_heap allocation failed">>)]
        ELSE [surfaces |-> [surfaces EXCEPT ![i] =
                                [s EXCEPT !.buffer = FALSE,
                                          !.dmabuf_buffers = NewPool(s.dmabuf_buffers),
                                          !.buffer_width = g[1],
                                          !.buffer_height = g[2]]],
              res |-> Ok]

\* a lookup that returns the first entry of the pool whether or not it is released
FirstReleased_first_entry(pool) == IF pool = <<>> THEN 0 ELSE 1

\* .position(|entry| entry.released): 0 when no entry is released
FirstReleased(pool) ==
    LET free == {k \in 1..Len(pool) : pool[k].released}
    IN  IF free = {} THEN 0 ELSE CHOOSE k \in free : \A j \in free : k <= j

\* an entry of imported_dmabuf_frames: the wl_buffer in flight and the frame it keeps alive
ImportedDmabufFrame == "in_flight"

\* the in-flight cap of draw_surface_dmabuf_imported
ImportCapReached_off_by_one(imported) == Len(imported) > MAX_IMPORTED_DMABUF_IN_FLIGHT

ImportCapReached(imported) == Len(imported) >= MAX_IMPORTED_DMABUF_IN_FLIGHT

\* draw_surface_dmabuf_imported returning from a deferral without asking for a
\* frame callback
draw_surface_dmabuf_imported_silent_deferral(surfaces, i, frame, o) ==
    LET s == surfaces[i]
    IN  IF ImportCapReached(s.imported_dmabuf_frames)
        THEN [surfaces |-> surfaces, res |-> Ok,
              req |-> [NoReq EXCEPT !.path = "import_deferred"]]
        ELSE IF frame.n_planes = 0
        THEN [surfaces |-> surfaces, res |-> Err(<<"dmabuf frame has no planes">>),
              req |-> [NoReq EXCEPT !.path = "import"]]
        ELSE IF ~o.kernel
        THEN [surfaces |-> surfaces, res |-> Err(<<"failed to duplicate plane fd">>),
              req |-> [NoReq EXCEPT !.path = "import"]]
        ELSE [surfaces |-> [surfaces EXCEPT ![i].imported_dmabuf_frames =
                                Append(s.imported_dmabuf_frames, ImportedDmabufFrame)],
              res |-> Ok,
              req |-> [path |-> "import", attach |-> "import", content |-> frame.seq,
                       frame_cb |-> TRUE, commit |-> TRUE]]

draw_surface_dmabuf_imported(surfaces, i, frame, o) ==
    LET s == surfaces[i]
    IN  IF ImportCapReached(s.imported_dmabuf_frames)
        THEN [surfaces |-> surfaces, res |-> Ok,
              req |-> [path |-> "import_deferred", attach |-> "none", content |-> -1,
                       frame_cb |-> TRUE, commit |-> TRUE]]
        ELSE IF frame.n_planes = 0
        THEN [surfaces |-> surfaces, res |-> Err(<<"dmabuf frame has no planes">>),
              req |-> [NoReq EXCEPT !.path = "import"]]
        ELSE IF ~o.kernel
        THEN [surfaces |-> surfaces, res |-> Err(<<"failed to duplicate plane fd">>),
              req |-> [NoReq EXCEPT !.path = "import"]]
        ELSE [surfaces |-> [surfaces EXCEPT ![i].imported_dmabuf_frames =
                                Append(s.imported_dmabuf_frames, ImportedDmabufFrame)],
              res |-> Ok,
              req |-> [path |-> "import", attach |-> "import", content |-> frame.seq,
                       frame_cb |-> TRUE, commit |-> TRUE]]

\* a zero-copy draw that takes the import path whenever the compositor scales,
\* whatever the mailbox holds
draw_surface_dmabuf_importing_any(surfaces, i, frame, mode, g, o) ==
    IF use_compositor_scaling(surfaces[i], mode)
    THEN draw_surface_dmabuf_imported(surfaces, i, frame, o)
    ELSE LET e == ensure_dmabuf_buffers(surfaces, i, g, o)
             pool == e.surfaces[i].dmabuf_buffers
             k == FirstReleased(pool)
         IN  IF ~e.res.ok
             THEN [surfaces |-> surfaces, res |-> e.res,
                   req |-> [NoReq EXCEPT !.path = "pool"]]
             ELSE IF k = 0
             THEN [surfaces |-> e.surfaces, res |-> Ok,
                   req |-> [path |-> "pool_deferred", attach |-> "none",
                            content |-> -1, frame_cb |-> TRUE, commit |-> TRUE]]
             ELSE [surfaces |-> [e.surfaces EXCEPT
                                    ![i].dmabuf_buffers[k].released = FALSE],
                   res |-> Ok,
                   req |-> [path |-> "pool", attach |-> "pool",
                            content |-> IF frame.kind = "Cpu" THEN frame.seq ELSE 0,
                            frame_cb |-> TRUE, commit |-> TRUE]]

\* draw_surface_dmabuf: Ok(true) is res.ok; a draw that reaches it has dmabuf_enabled
draw_surface_dmabuf(surfaces, i, frame, mode, g, o) ==
    IF use_compositor_scaling(surfaces[i], mode) /\ frame.kind = "Dmabuf"
    THEN draw_surface_dmabuf_imported(surfaces, i, frame, o)
    ELSE LET e == ensure_dmabuf_buffers(surfaces, i, g, o)
             pool == e.surfaces[i].dmabuf_buffers
             k == FirstReleased(pool)
         IN  IF ~e.res.ok
             THEN [surfaces |-> surfaces, res |-> e.res,
                   req |-> [NoReq EXCEPT !.path = "pool"]]
             ELSE IF k = 0
             THEN [surfaces |-> e.surfaces, res |-> Ok,
                   req |-> [path |-> "pool_deferred", attach |-> "none",
                            content |-> -1, frame_cb |-> TRUE, commit |-> TRUE]]
             ELSE [surfaces |-> [e.surfaces EXCEPT
                                    ![i].dmabuf_buffers[k].released = FALSE],
                   res |-> Ok,
                   req |-> [path |-> "pool", attach |-> "pool",
                            content |-> IF frame.kind = "Cpu" THEN frame.seq ELSE 0,
                            frame_cb |-> TRUE, commit |-> TRUE]]

\* disable_dmabuf: every surface loses its pool and its in-flight imports
disable_dmabuf_pools_only(surfaces) ==
    [k \in DOMAIN surfaces |-> [surfaces[k] EXCEPT !.dmabuf_buffers = <<>>]]

disable_dmabuf(surfaces) ==
    [k \in DOMAIN surfaces |->
        [surfaces[k] EXCEPT !.dmabuf_buffers = <<>>, !.imported_dmabuf_frames = <<>>]]

\* the errors of the zero-copy path: of ensure_dmabuf_buffers and
\* draw_surface_dmabuf_imported, and of the params `failed` event
ZeroCopyFailures ==
    {"dma_heap allocation failed", "dmabuf frame has no planes",
     "failed to duplicate plane fd", "dmabuf buffer creation failed"}

\* draw_surface's handling of an error of the zero-copy path: fatal when required
DmabufErrorIsFatal_never(required) == FALSE

DmabufErrorIsFatal(required) == required

\* draw_surface, given the payload read from the mailbox
draw_surface(surfaces, i, frame, enabled, required, mode, o) ==
    LET g == BufferGeometry(surfaces[i], mode, frame)
        d == draw_surface_dmabuf(surfaces, i, frame, mode, g, o)
        after == IF enabled /\ ~d.res.ok THEN disable_dmabuf(surfaces) ELSE surfaces
        m == draw_surface_shm(after, i, effective_cpu_frame(frame), g, o)
    IN  IF enabled /\ d.res.ok
        THEN [surfaces |-> d.surfaces, enabled |-> TRUE, res |-> Ok, req |-> d.req,
              fell_back |-> FALSE]
        ELSE IF enabled /\ DmabufErrorIsFatal(required)
        THEN [surfaces |-> d.surfaces, enabled |-> TRUE, res |-> d.res, req |-> d.req,
              fell_back |-> FALSE]
        ELSE [surfaces |-> m.surfaces, enabled |-> FALSE, res |-> m.res, req |-> m.req,
              fell_back |-> enabled]

(***************************************************************************)
(* State.                                                                  *)
(***************************************************************************)
VARIABLES
    args,               \* play_video's arguments and the parsed environment settings
    compositor,         \* what the compositor offers: outputs, linux-dmabuf, viewporter
    dma_heap,           \* whether a /dev/dma_heap device can be opened
    limits,             \* how much the environment does in this run: how many samples
                        \* the stream delivers and of which kinds, how many size,
                        \* scale and transform notifications the compositor sends
                        \* beyond each surface's first
    frame_store,        \* the frame mailbox, Arc<Mutex<Option<FramePayload>>>
    stop,               \* the stop flag, Arc<AtomicBool>
    ready,              \* the readiness channel: "empty", "ok" (a message waits), "taken"
    mpc,                \* where the calling thread is in play_video_layer_shell
    result,             \* what play_video returned (None until it returns)
    joined,             \* whether the render thread has been joined
    pipeline,           \* "none", "playing", "null"
    decoded,            \* samples pulled so far
    latest,             \* sequence number of the last payload the decode loop stored
    recorder,           \* MetricsRecorder: previous_frame_instant set, sample_count
    metrics_file,       \* the snapshot the metrics file holds
    rpc,                \* where the render thread is in run_layer_renderer
    rresult,            \* what run_layer_renderer returned
    dmabuf_enabled, dmabuf_required, surfaces, exit, fatal_error,
    dispatched,         \* events handled so far by the blocking_dispatch call in progress
    pending_callbacks,  \* per surface: frame callbacks requested and not yet fired
    geometry_events,    \* size/scale/transform notifications sent so far
    params_created,     \* whether a zwp_linux_buffer_params_v1 object was ever created
    last,               \* the most recent handler call: handler, outcome, draw request
    observed,           \* sequence number of the payload the last redraw read
    recorded,           \* the fatal error most recently recorded by a handler
    shm_attached,       \* whether a shared-memory buffer was ever attached
    frame_store_lock,   \* holder of the mailbox mutex: "free", "decode" or "render"
    draw_call,          \* the draw_surface call in progress, when taken step by step
    drained,            \* what the last drain of the bus saw: reached_eos, playback_error
    clock,              \* the time in ms, as Instant::now() and SystemTime::now() read it
    stored,             \* how much of the snapshot being written has reached the file
    loaded,             \* the read of the metrics file by another process, and its result
    call,               \* a function called on its own: its name, arguments and result
    controller,         \* the AutoController: active profile, signature, mute, processes
    override_file,      \* the manual override as the OverrideStore holds it
    launch_log,         \* the spawns and terminates of playback processes, in order
    tick_result         \* the last call of the controller and what it returned

vars == <<args, compositor, dma_heap, limits, frame_store, stop, ready,
          mpc, result, joined, pipeline, decoded, latest, recorder, metrics_file, rpc,
          rresult, dmabuf_enabled, dmabuf_required, surfaces, exit, fatal_error,
          dispatched, pending_callbacks, geometry_events, params_created, last,
          observed, recorded, shm_attached, frame_store_lock, draw_call,
          drained, clock, stored, loaded, call, controller, override_file,
          launch_log, tick_result>>

main_vars == <<mpc, result, joined, pipeline, decoded, latest, recorder, metrics_file,
              drained, clock>>

render_vars == <<rpc, rresult, dmabuf_enabled, dmabuf_required, surfaces, exit,
                 fatal_error, dispatched, pending_callbacks, geometry_events,
                 params_created, last, observed, recorded, shm_attached>>

env_vars == <<args, compositor, dma_heap, limits>>

lock_vars == <<frame_store_lock, draw_call>>

\* the daemon's controller, its override store and its launcher
controller_vars == <<controller, override_file, launch_log, tick_result>>

\* what the steps of play_video and of the renderer, taken whole, never change: the
\* bytes of a file write in progress, the reader of the metrics file, the calls
\* of functions on their own and the daemon's controller
other_vars == <<stored, loaded, call, controller_vars>>

NoCall == [h |-> "none", surface |-> 0, ok |-> TRUE, req |-> NoReq, fell_back |-> FALSE]

\* no MetricsRecorder; as MetricsRecorder::new leaves it but for exists and
\* last_flush_instant.  previous is previous_frame_instant.is_some()
NoRecorder ==
    [exists |-> FALSE, previous |-> FALSE, previous_frame_instant |-> 0,
     sample_count |-> 0, samples |-> <<>>, last_fps |-> 0, last_flush_instant |-> 0]

Args ==
    [input : SourceInputs, loop_playback : BOOLEAN, metrics : BOOLEAN,
     output : RequestedNames,
     dmabuf_mode : DmabufModes, scale_mode : ScaleModes]

Compositors == [outputs : OutputLists, dmabuf : BOOLEAN, viewporter : BOOLEAN]

\* how long one iteration of the decode loop may take, in ms
TimeSteps == {100, 250}

Limits ==
    [frames : 0..MaxFrames, samples : SUBSET Samples \ {{}},
     geometry : 0..MaxGeometryEvents, time_steps : SUBSET TimeSteps \ {{}}]

\* the runs the model starts from: the arguments and the environment of each
Scenarios == [args : Args, compositor : Compositors, dma_heap : BOOLEAN, limits : Limits]

\* the state when play_video_layer_shell is entered in one of the scenarios, with
\* one of the given recorders, and one of the given calls to be made
StartWith(scenarios, recorders, calls) ==
    /\ \E c \in scenarios :
          /\ args = c.args
          /\ compositor = c.compositor
          /\ dma_heap = c.dma_heap
          /\ limits = c.limits
    /\ frame_store = NoFrame
    /\ stop = FALSE
    /\ ready = "empty"
    /\ mpc = "start"
    /\ result = None
    /\ joined = FALSE
    /\ pipeline = "none"
    /\ decoded = 0
    /\ latest = 0
    /\ recorder \in recorders
    /\ metrics_file = NoFile
    /\ rpc = "unspawned"
    /\ rresult = None
    /\ dmabuf_enabled = FALSE
    /\ dmabuf_required = FALSE
    /\ surfaces = <<>>
    /\ exit = FALSE
    /\ fatal_error = None
    /\ dispatched = 0
    /\ pending_callbacks = <<>>
    /\ geometry_events = 0
    /\ params_created = FALSE
    /\ last = NoCall
    /\ observed = 0
    /\ recorded = None
    /\ shm_attached = FALSE
    /\ frame_store_lock = "free"
    /\ draw_call = NoDraw
    /\ drained = NoDrain
    /\ clock = 0
    /\ stored = MaxChunks
    /\ loaded = NotLoaded
    /\ call \in calls
    /\ controller = AutoController_new
    /\ override_file = None
    /\ launch_log = <<>>
    /\ tick_result = NoTick

\* the same with no function called on its own
StartFrom(scenarios, recorders) == StartWith(scenarios, recorders, {NotCalled})

\* the state when play_video_layer_shell is entered: no recorder yet
Start(scenarios) == StartFrom(scenarios, {NoRecorder})

Init == Start(Scenarios)

(***************************************************************************)
(* The calling thread: play_video_layer_shell.                             *)
(***************************************************************************)
\* thread::spawn(run_layer_renderer)
Spawn ==
    /\ mpc = "start"
    /\ mpc' = "recv"
    /\ rpc' = "connect"
    /\ UNCHANGED <<lock_vars, env_vars, other_vars, drained, clock, frame_store, stop, ready, result, joined, pipeline, decoded,
                   latest, recorder, metrics_file, rresult, dmabuf_enabled,
                   dmabuf_required, surfaces, exit, fatal_error, dispatched,
                   pending_callbacks, geometry_events, params_created, last, observed,
                   recorded, shm_attached>>

\* a recv() that returns Ok(Ok(())) whether or not a message was sent
RecvReady_without_message ==
    /\ mpc = "recv"
    /\ ready' = "taken"
    /\ mpc' = "ready"
    /\ UNCHANGED <<lock_vars, env_vars, other_vars, drained, clock, frame_store, stop, result, joined, pipeline, decoded, latest,
                   recorder, metrics_file, render_vars>>

\* ready_rx.recv() returns Ok(Ok(()))
RecvReady ==
    /\ mpc = "recv"
    /\ ready = "ok"
    /\ ready' = "taken"
    /\ mpc' = "ready"
    /\ UNCHANGED <<lock_vars, env_vars, other_vars, drained, clock, frame_store, stop, result, joined, pipeline, decoded, latest,
                   recorder, metrics_file, render_vars>>

\* the message recv() reports once every sender is gone
RecvErrorText == "receiving on a closed channel"

\* ready_rx.recv() returns Err(RecvError): the render thread returned, dropping
\* ready_tx, without having sent; stop is stored, the thread joined and its own
\* result discarded
RecvDisconnected ==
    /\ mpc = "recv"
    /\ ready = "empty"
    /\ rpc = "done"
    /\ stop' = TRUE
    /\ joined' = TRUE
    /\ result' = Some(Err(<<"layer renderer failed to report startup status: ",
                            RecvErrorText>>))
    /\ mpc' = "done"
    /\ UNCHANGED <<lock_vars, env_vars, other_vars, drained, clock, frame_store, ready, pipeline, decoded, latest, recorder,
                   metrics_file, render_vars>>

\* write_placeholder_metrics
PlaceholderSnapshot(file, requested, now) ==
    IF requested
    THEN [exists |-> TRUE, sample_count |-> 0,
          notes |-> <<"blank source does not emit FPS samples">>,
          updated_unix_ms |-> unix_timestamp_ms(now), recent_fps |-> <<>>,
          last_fps |-> 0, writes |-> file.writes + 1]
    ELSE file

\* is_blank_source(input): the placeholder snapshot, then the idle loop or sleep
BlankStart ==
    /\ mpc = "ready"
    /\ is_blank_source(args.input)
    /\ metrics_file' = PlaceholderSnapshot(metrics_file, args.metrics, clock)
    /\ mpc' = IF args.loop_playback THEN "blank_loop" ELSE "blank_sleep"
    /\ UNCHANGED <<lock_vars, env_vars, other_vars, drained, clock, frame_store, stop, ready, result, joined, pipeline, decoded,
                   latest, recorder, render_vars>>

\* while !stop { sleep(200ms) } has seen the flag
BlankLoopExit ==
    /\ mpc = "blank_loop"
    /\ stop
    /\ mpc' = "join"
    /\ UNCHANGED <<lock_vars, env_vars, other_vars, drained, clock, frame_store, stop, ready, result, joined, pipeline, decoded,
                   latest, recorder, metrics_file, render_vars>>

\* sleep(400ms); stop.store(true)
BlankSleepDone ==
    /\ mpc = "blank_sleep"
    /\ stop' = TRUE
    /\ mpc' = "join"
    /\ UNCHANGED <<lock_vars, env_vars, other_vars, drained, clock, frame_store, ready, result, joined, pipeline, decoded, latest,
                   recorder, metrics_file, render_vars>>

\* join_renderer_thread as the function's value
join_renderer_thread(thread_result) == thread_result

Join ==
    /\ mpc = "join"
    /\ rpc = "done"
    /\ joined' = TRUE
    /\ result' = Some(join_renderer_thread(rresult.v))
    /\ mpc' = "done"
    /\ UNCHANGED <<lock_vars, env_vars, other_vars, drained, clock, frame_store, stop, ready, pipeline, decoded, latest, recorder,
                   metrics_file, render_vars>>

\* what can go wrong between gst::init and set_state(Playing); each is a `?` return
PipelineOutcomes ==
    {"ok", "failed to initialize GStreamer", "failed to set pipeline to Playing"}

\* gst::init ... playbin.set_state(Playing), MetricsRecorder::new
BuildPipeline ==
    /\ mpc = "ready"
    /\ ~is_blank_source(args.input)
    /\ \E outcome \in PipelineOutcomes :
          IF outcome = "ok"
          THEN /\ pipeline' = "playing"
               /\ recorder' = IF args.metrics THEN MetricsRecorder_new(clock)
                              ELSE NoRecorder
               /\ mpc' = "loop"
               /\ UNCHANGED result
          ELSE /\ result' = Some(Err(<<outcome>>))
               /\ mpc' = "done"
               /\ UNCHANGED <<pipeline, recorder>>
    /\ UNCHANGED <<lock_vars, env_vars, other_vars, drained, clock, frame_store, stop, ready, joined, decoded, latest,
                   metrics_file, render_vars>>

\* a loop head that does not look at the stop flag
LoopTop_ignoring_stop ==
    /\ mpc = "loop"
    /\ mpc' = "pull"
    /\ drained' = NoDrain
    /\ UNCHANGED <<lock_vars, env_vars, other_vars, clock, frame_store, stop, ready, result, joined, pipeline, decoded,
                   latest, recorder, metrics_file, render_vars>>

\* while !stop.load(Relaxed)
LoopTop ==
    /\ mpc = "loop"
    /\ mpc' = IF stop THEN "shutdown" ELSE "pull"
    /\ drained' = NoDrain
    /\ UNCHANGED <<lock_vars, env_vars, other_vars, clock, frame_store, stop, ready, result, joined, pipeline, decoded,
                   latest, recorder, metrics_file, render_vars>>

\* the clock one loop iteration later: an iteration takes dt ms (it ends with an
\* 8 ms sleep); time is followed only while a recorder reads it
Elapse(now, dt, observed_by_recorder) == IF observed_by_recorder THEN now + dt ELSE now

\* a record_frame that pushes onto a full history without dropping the oldest sample
record_frame_without_eviction(rec, now) ==
    LET delta == Max(now - rec.previous_frame_instant, 0)
        fps == Min(Max(1000 \div delta, 0), 1000)
    IN  IF rec.previous /\ delta > 0
        THEN [rec EXCEPT !.previous_frame_instant = now,
                         !.last_fps = fps,
                         !.sample_count = @ + 1,
                         !.samples = Append(@, fps)]
        ELSE [rec EXCEPT !.previous = TRUE, !.previous_frame_instant = now]

\* MetricsRecorder::record_frame at the instant `now`: the first frame gives no
\* sample, nor does a zero delta; a full history drops its oldest sample first.
\* The rate is 1.0 / delta in seconds, clamped to 0..1000, here in whole frames.
record_frame(rec, now) ==
    LET delta == Max(now - rec.previous_frame_instant, 0)
        fps == Min(Max(1000 \div delta, 0), 1000)
        kept == IF Len(rec.samples) = METRICS_HISTORY_CAPACITY
                THEN Tail(rec.samples) ELSE rec.samples
    IN  IF rec.previous /\ delta > 0
        THEN [rec EXCEPT !.previous_frame_instant = now,
                         !.last_fps = fps,
                         !.sample_count = @ + 1,
                         !.samples = Append(kept, fps)]
        ELSE [rec EXCEPT !.previous = TRUE, !.previous_frame_instant = now]

\* MetricsRecorder::snapshot written by write_metrics_snapshot over the file
snapshot(rec, file, notes, now) ==
    [exists |-> TRUE, sample_count |-> rec.sample_count, notes |-> notes,
     updated_unix_ms |-> unix_timestamp_ms(now), recent_fps |-> rec.samples,
     last_fps |-> rec.last_fps, writes |-> file.writes + 1]

\* MetricsRecorder::flush_if_due at the instant `now`: nothing unless forced or
\* METRICS_FLUSH_INTERVAL has elapsed since the last flush; else the file is
\* rewritten and the flush instant moves to `now`
flush_if_due(rec, file, force, now, notes) ==
    IF ~force /\ now - rec.last_flush_instant < METRICS_FLUSH_INTERVAL
    THEN [rec |-> rec, file |-> file]
    ELSE [rec |-> [rec EXCEPT !.last_flush_instant = now],
          file |-> snapshot(rec, file, notes, now)]

\* try_pull_sample, sample_to_frame_payload, the mailbox write, the metrics
Pull ==
    /\ mpc = "pull"
    /\ mpc' = "bus"
    /\ \E pulled \in BOOLEAN, sample \in limits.samples, map_ok \in BOOLEAN,
          dt \in limits.time_steps :
          LET now == Elapse(clock, dt, recorder.exists)
              in_time == now <= MaxClock
              p == sample_to_frame_payload(sample, args.dmabuf_mode # "Off",
                                           decoded + 1, map_ok)
              rec == record_frame(recorder, now)
              fl == flush_if_due(rec, metrics_file, FALSE, now, <<>>)
          IN  /\ clock' = IF in_time THEN now ELSE clock
              /\ IF pulled /\ decoded < limits.frames /\ in_time
                 THEN /\ decoded' = decoded + 1
                      /\ IF p.ok
                         THEN /\ frame_store' = StoreFrame(frame_store, p.payload)
                              /\ latest' = p.payload.seq
                              /\ IF recorder.exists
                                 THEN /\ recorder' = fl.rec
                                      /\ metrics_file' = fl.file
                                 ELSE UNCHANGED <<recorder, metrics_file>>
                         ELSE UNCHANGED <<frame_store, latest, recorder, metrics_file>>
                 ELSE UNCHANGED <<decoded, frame_store, latest, recorder, metrics_file>>
    /\ UNCHANGED <<lock_vars, env_vars, other_vars, drained, stop, ready, result, joined, pipeline,
                   render_vars>>

PipelineError == <<"GStreamer error from ", "/GstPlayBin:player", ": ", "decode error">>

\* a decode loop that stops at end-of-stream whether or not looping was requested
Bus_never_looping ==
    /\ mpc = "bus"
    /\ \E reached_eos \in BOOLEAN, error \in BOOLEAN :
          /\ drained' = [reached_eos |-> reached_eos, playback_error |-> error]
          /\ IF error
             THEN /\ stop' = TRUE
                  /\ pipeline' = "null"
                  /\ mpc' = "error_join"
                  /\ UNCHANGED result
             ELSE IF reached_eos
             THEN /\ stop' = TRUE
                  /\ mpc' = "shutdown"
                  /\ UNCHANGED <<result, pipeline>>
             ELSE /\ mpc' = "loop"
                  /\ UNCHANGED <<stop, result, pipeline>>
    /\ UNCHANGED <<lock_vars, env_vars, other_vars, clock, frame_store, ready, joined, decoded, latest, recorder,
                   metrics_file, render_vars>>

\* a decode loop that acts on end-of-stream before it looks at the recorded error
Bus_eos_first ==
    /\ mpc = "bus"
    /\ \E reached_eos \in BOOLEAN, error \in BOOLEAN, seek_ok \in BOOLEAN :
          /\ drained' = [reached_eos |-> reached_eos, playback_error |-> error]
          /\ IF reached_eos /\ args.loop_playback
             THEN /\ IF seek_ok
                     THEN mpc' = "loop" /\ UNCHANGED result
                     ELSE /\ result' =
                                Some(Err(<<"failed to seek to start for looped playback">>))
                          /\ mpc' = "done"
                  /\ UNCHANGED <<stop, pipeline>>
             ELSE IF reached_eos
             THEN /\ stop' = TRUE
                  /\ mpc' = "shutdown"
                  /\ UNCHANGED <<result, pipeline>>
             ELSE IF error
             THEN /\ stop' = TRUE
                  /\ pipeline' = "null"
                  /\ mpc' = "error_join"
                  /\ UNCHANGED result
             ELSE /\ mpc' = "loop"
                  /\ UNCHANGED <<stop, result, pipeline>>
    /\ UNCHANGED <<lock_vars, env_vars, other_vars, clock, frame_store, ready, joined, decoded, latest, recorder,
                   metrics_file, render_vars>>

\* the bus drain and what follows it in one loop iteration: a pipeline error, or
\* end-of-stream (seek when looping, stop otherwise), or the 8 ms sleep
Bus ==
    /\ mpc = "bus"
    /\ \E reached_eos \in BOOLEAN, error \in BOOLEAN, seek_ok \in BOOLEAN :
          /\ drained' = [reached_eos |-> reached_eos, playback_error |-> error]
          /\ IF error
             THEN /\ stop' = TRUE
                  /\ pipeline' = "null"
                  /\ mpc' = "error_join"
                  /\ UNCHANGED result
             ELSE IF reached_eos /\ args.loop_playback
             THEN /\ IF seek_ok
                     THEN mpc' = "loop" /\ UNCHANGED result
                     ELSE /\ result' =
                                Some(Err(<<"failed to seek to start for looped playback">>))
                          /\ mpc' = "done"
                  /\ UNCHANGED <<stop, pipeline>>
             ELSE IF reached_eos
             THEN /\ stop' = TRUE
                  /\ mpc' = "shutdown"
                  /\ UNCHANGED <<result, pipeline>>
             ELSE /\ mpc' = "loop"
                  /\ UNCHANGED <<stop, result, pipeline>>
    /\ UNCHANGED <<lock_vars, env_vars, other_vars, clock, frame_store, ready, joined, decoded, latest, recorder,
                   metrics_file, render_vars>>

\* the pipeline-error return: join the render thread (its result is discarded),
\* flush the metrics with the error as the note, return the error
ErrorJoin ==
    /\ mpc = "error_join"
    /\ rpc = "done"
    /\ joined' = TRUE
    /\ LET fl == flush_if_due(recorder, metrics_file, TRUE, clock, PipelineError)
       IN  IF recorder.exists
           THEN recorder' = fl.rec /\ metrics_file' = fl.file
           ELSE UNCHANGED <<recorder, metrics_file>>
    /\ result' = Some(Err(PipelineError))
    /\ mpc' = "done"
    /\ UNCHANGED <<lock_vars, env_vars, other_vars, drained, clock, frame_store, stop, ready, pipeline, decoded, latest,
                   render_vars>>

\* after the loop: set_state(Null)?, the forced flush, stop.store(true)
Shutdown ==
    /\ mpc = "shutdown"
    /\ \E null_ok \in BOOLEAN :
          IF null_ok
          THEN /\ pipeline' = "null"
               /\ LET fl == flush_if_due(recorder, metrics_file, TRUE, clock,
                                          <<"playback stopped">>)
                  IN  IF recorder.exists
                      THEN recorder' = fl.rec /\ metrics_file' = fl.file
                      ELSE UNCHANGED <<recorder, metrics_file>>
               /\ stop' = TRUE
               /\ mpc' = "join"
               /\ UNCHANGED result
          ELSE /\ result' = Some(Err(<<"failed to set pipeline to Null">>))
               /\ mpc' = "done"
               /\ UNCHANGED <<pipeline, recorder, metrics_file, stop>>
    /\ UNCHANGED <<lock_vars, env_vars, other_vars, drained, clock, frame_store, ready, joined, decoded, latest,
                   render_vars>>

(***************************************************************************)
(* The render thread: run_layer_renderer, startup.                         *)
(*                                                                         *)
(* The model follows the two threads until play_video_layer_shell returns: *)
(* the render thread takes no step once Returned holds.  When              *)
(* run_layer_renderer returns, its LayerWallpaperState is dropped.         *)
(***************************************************************************)
Returned == mpc = "done"

\* run_layer_renderer returns res: the state it owned goes away with it
RenderReturns(res) ==
    /\ rresult' = Some(res)
    /\ rpc' = "done"
    /\ surfaces' = <<>>
    /\ pending_callbacks' = <<>>
    /\ fatal_error' = None
    /\ dispatched' = 0
    /\ geometry_events' = 0
    /\ last' = NoCall

ConnectOutcomes ==
    {"ok", "failed to connect to Wayland server", "layer shell is unavailable"}

\* connect_to_env, registry_queue_init, the required globals, the optional ones
RConnect ==
    /\ rpc = "connect"
    /\ ~Returned
    /\ \E outcome \in ConnectOutcomes :
          IF outcome = "ok"
          THEN /\ rpc' = "dmabuf_setup"
               /\ UNCHANGED <<rresult, surfaces, pending_callbacks, fatal_error,
                              dispatched, geometry_events, last>>
          ELSE RenderReturns(Err(<<outcome>>))
    /\ UNCHANGED <<lock_vars, env_vars, other_vars, frame_store, stop, ready, main_vars, dmabuf_enabled, dmabuf_required, exit, params_created,
                   observed, recorded, shm_attached>>

DmabufProtocolMissing ==
    <<"WAYBG_DMABUF=on, but compositor does not expose ", "zwp_linux_dmabuf_v1">>

\* (dmabuf_enabled, dmabuf_required, dma_heap_fd) of run_layer_renderer
DmabufSetup(mode, protocol_supported, heap_ok) ==
    IF mode = "Off"
    THEN [ok |-> TRUE, msg |-> <<>>, enabled |-> FALSE, required |-> FALSE]
    ELSE IF ~protocol_supported
    THEN IF mode = "On"
         THEN [ok |-> FALSE, msg |-> DmabufProtocolMissing, enabled |-> FALSE,
               required |-> FALSE]
         ELSE [ok |-> TRUE, msg |-> <<>>, enabled |-> FALSE, required |-> FALSE]
    ELSE IF heap_ok
    THEN [ok |-> TRUE, msg |-> <<>>, enabled |-> TRUE, required |-> mode = "On"]
    ELSE IF mode = "On"
    THEN [ok |-> FALSE, msg |-> <<"WAYBG_DMABUF=on, but opening dma_heap failed">>,
          enabled |-> FALSE, required |-> FALSE]
    ELSE [ok |-> TRUE, msg |-> <<>>, enabled |-> FALSE, required |-> FALSE]

RDmabufSetup ==
    /\ rpc = "dmabuf_setup"
    /\ ~Returned
    /\ LET d == DmabufSetup(args.dmabuf_mode, compositor.dmabuf, dma_heap)
       IN  IF d.ok
           THEN /\ dmabuf_enabled' = d.enabled
                /\ dmabuf_required' = d.required
                /\ rpc' = "outputs"
                /\ UNCHANGED <<rresult, surfaces, pending_callbacks, fatal_error,
                               dispatched, geometry_events, last>>
           ELSE /\ RenderReturns(Err(d.msg))
                /\ UNCHANGED <<dmabuf_enabled, dmabuf_required>>
    /\ UNCHANGED <<lock_vars, env_vars, other_vars, frame_store, stop, ready, main_vars, exit, params_created,
                   observed, recorded, shm_attached>>

\* what the rest of the startup does: the shm pool, the roundtrip, the targets,
\* the final zero-copy check, one layer surface per target
StartupPlan(outputs, requested, mode, enabled, viewporter, scale_mode, pool_ok) ==
    LET t == select_target_outputs(outputs, requested)
        compositor_scaling_enabled == viewporter /\ scale_mode # "Fit"
    IN  IF ~pool_ok
        THEN [ok |-> FALSE, msg |-> <<"failed to allocate shared memory pool">>,
              surfaces |-> <<>>]
        ELSE IF ~t.ok THEN [ok |-> FALSE, msg |-> t.msg, surfaces |-> <<>>]
        ELSE IF t.targets = <<>>
        THEN [ok |-> FALSE, msg |-> <<"no Wayland outputs were detected">>,
              surfaces |-> <<>>]
        ELSE IF ~enabled /\ mode = "On"
        THEN [ok |-> FALSE,
              msg |-> <<"WAYBG_DMABUF=on requested, but dmabuf path is not available">>,
              surfaces |-> <<>>]
        ELSE [ok |-> TRUE, msg |-> <<>>,
              surfaces |-> [k \in 1..Len(t.targets) |->
                               NewSurface(compositor_scaling_enabled)]]

\* SlotPool::new, the roundtrip, the targets, the loop creating the layer surfaces,
\* ready_tx.send(Ok(()))
RCreateSurfaces ==
    /\ rpc = "outputs"
    /\ ~Returned
    /\ \E pool_ok \in BOOLEAN :
          LET plan == StartupPlan(compositor.outputs, args.output, args.dmabuf_mode,
                                  dmabuf_enabled, compositor.viewporter,
                                  args.scale_mode, pool_ok)
          IN  IF plan.ok
              THEN /\ surfaces' = plan.surfaces
                   /\ pending_callbacks' = [k \in DOMAIN plan.surfaces |-> 0]
                   /\ ready' = "ok"
                   /\ rpc' = "loop"
                   /\ UNCHANGED <<rresult, fatal_error, dispatched, geometry_events,
                                  last>>
              ELSE /\ RenderReturns(Err(plan.msg))
                   /\ UNCHANGED ready
    /\ UNCHANGED <<lock_vars, env_vars, other_vars, frame_store, stop, main_vars, dmabuf_enabled,
                   dmabuf_required, exit, params_created, observed, recorded,
                   shm_attached>>

(***************************************************************************)
(* The render thread: the event loop.                                      *)
(***************************************************************************)
\* if stop.load() || exit { break } ... Ok(())
RLoopCheck ==
    /\ rpc = "loop"
    /\ ~Returned
    /\ IF stop \/ exit
       THEN RenderReturns(Ok)
       ELSE /\ rpc' = "dispatch"
            /\ dispatched' = 0
            /\ UNCHANGED <<rresult, surfaces, pending_callbacks, fatal_error,
                           geometry_events, last>>
    /\ UNCHANGED <<lock_vars, env_vars, other_vars, frame_store, stop, ready, main_vars, dmabuf_enabled,
                   dmabuf_required, exit, params_created, observed, recorded,
                   shm_attached>>

\* blocking_dispatch fails reading from or writing to the connection, before any
\* event of this call is handled
RDispatchFail ==
    /\ rpc = "dispatch"
    /\ ~Returned
    /\ dispatched = 0
    /\ RenderReturns(Err(<<"Wayland dispatch failed: ", "connection error">>))
    /\ UNCHANGED <<lock_vars, env_vars, other_vars, frame_store, stop, ready, main_vars, dmabuf_enabled,
                   dmabuf_required, exit, params_created, observed, recorded,
                   shm_attached>>

\* the check after blocking_dispatch: a recorded fatal error ends the loop
AfterDispatch(fatal) ==
    IF fatal.some THEN [done |-> TRUE, res |-> Err(fatal.v)]
    ELSE [done |-> FALSE, res |-> Ok]

\* blocking_dispatch returns, having handled at least one event
RDispatchReturn ==
    /\ rpc = "dispatch"
    /\ ~Returned
    /\ dispatched > 0
    /\ LET a == AfterDispatch(fatal_error)
       IN  IF a.done
           THEN RenderReturns(a.res)
           ELSE /\ rpc' = "loop"
                /\ dispatched' = 0
                /\ UNCHANGED <<rresult, surfaces, pending_callbacks, fatal_error,
                               geometry_events, last>>
    /\ UNCHANGED <<lock_vars, env_vars, other_vars, frame_store, stop, ready, main_vars, dmabuf_enabled,
                   dmabuf_required, exit, params_created, observed, recorded,
                   shm_attached>>

(***************************************************************************)
(* The event handlers of LayerWallpaperState.  Each runs inside a          *)
(* blocking_dispatch call of the render thread.                            *)
(***************************************************************************)
\* an invalidation that forgets the shared-memory buffer only
Invalidate_keeping_zero_copy(s) ==
    [s EXCEPT !.buffer = FALSE, !.buffer_width = 0, !.buffer_height = 0]

\* the geometry handlers drop the surface's buffers before they redraw
Invalidate(s) ==
    [s EXCEPT !.buffer = FALSE, !.buffer_width = 0, !.buffer_height = 0,
              !.dmabuf_buffers = <<>>, !.imported_dmabuf_frames = <<>>]

\* what a handler does with the Result of its redraw: a failure is recorded as the
\* fatal error and requests exit
RecordFatal(fatal, res, prefix) ==
    IF res.ok THEN [fatal |-> fatal, exit |-> FALSE]
    ELSE [fatal |-> Some(<<prefix>> \o res.msg), exit |-> TRUE]

\* a handler named h redraws surface i, whose state it has already changed to `pre`;
\* `consumed` is 1 when the handler is the firing of a frame callback
RedrawFrame(h, prefix, i, pre, consumed, current_frame) ==
    /\ pending_callbacks[i] - consumed + 1 <= MaxCallbacks
    /\ \E o \in DrawOutcomes :
          LET d == draw_surface(pre, i, current_frame, dmabuf_enabled, dmabuf_required,
                                args.scale_mode, o)
              f == RecordFatal(fatal_error, d.res, prefix)
          IN  /\ surfaces' = d.surfaces
              /\ dmabuf_enabled' = d.enabled
              /\ fatal_error' = f.fatal
              /\ exit' = (exit \/ f.exit)
              /\ stop' = (stop \/ f.exit)
              /\ recorded' = IF f.exit THEN f.fatal ELSE recorded
              /\ pending_callbacks' =
                    [pending_callbacks EXCEPT
                        ![i] = @ - consumed
                               + (IF d.req.frame_cb /\ d.req.commit THEN 1 ELSE 0)]
              /\ params_created' =
                    (params_created
                     \/ (d.res.ok /\ d.req.path \in {"pool", "pool_deferred", "import"}))
              /\ last' = [h |-> h, surface |-> i, ok |-> d.res.ok, req |-> d.req,
                          fell_back |-> d.fell_back]
              /\ observed' = current_frame.seq
              /\ shm_attached' = (shm_attached \/ d.req.attach = "shm")
    /\ dispatched' = dispatched + 1
    /\ UNCHANGED <<env_vars, other_vars, frame_store, ready, main_vars, rpc, rresult,
                   dmabuf_required>>

\* a handler's draw_surface call taken as one step: lock, clone, unlock, draw
Redraw(h, prefix, i, pre, consumed) ==
    /\ RedrawFrame(h, prefix, i, pre, consumed, frame_store)
    /\ UNCHANGED lock_vars

\* LayerShellHandler::configure
Configure ==
    /\ rpc = "dispatch"
    /\ ~Returned
    /\ dispatched < MaxBatch
    /\ geometry_events < limits.geometry + Len(surfaces)
    /\ \E i \in DOMAIN surfaces, size \in ConfigureSizes :
          LET width == Max(size[1], 1)
              height == Max(size[2], 1)
              s == surfaces[i]
              resized == IF s.width # width \/ s.height # height
                         THEN [Invalidate(s) EXCEPT !.width = width, !.height = height]
                         ELSE s
              pre == [surfaces EXCEPT ![i] = [resized EXCEPT !.first_configure = FALSE]]
          IN  Redraw("configure", "configure redraw failed: ", i, pre, 0)
    /\ geometry_events' = geometry_events + 1

\* CompositorHandler::scale_factor_changed
ScaleFactorChanged ==
    /\ rpc = "dispatch"
    /\ ~Returned
    /\ dispatched < MaxBatch
    /\ geometry_events < limits.geometry + Len(surfaces)
    /\ \E i \in DOMAIN surfaces, new_factor \in ScaleFactors :
          LET pre == [surfaces EXCEPT
                         ![i] = [Invalidate(@) EXCEPT
                                    !.scale_factor = Max(new_factor, 1)]]
          IN  Redraw("scale_factor_changed", "scale-factor redraw failed: ", i, pre, 0)
    /\ geometry_events' = geometry_events + 1

\* CompositorHandler::transform_changed
TransformChanged ==
    /\ rpc = "dispatch"
    /\ ~Returned
    /\ dispatched < MaxBatch
    /\ geometry_events < limits.geometry + Len(surfaces)
    /\ \E i \in DOMAIN surfaces, new_transform \in Transforms :
          LET pre == [surfaces EXCEPT
                         ![i] = [Invalidate(@) EXCEPT !.transform = new_transform]]
          IN  Redraw("transform_changed", "transform redraw failed: ", i, pre, 0)
    /\ geometry_events' = geometry_events + 1

\* CompositorHandler::frame: a frame callback of surface i fires
FrameCallback ==
    /\ rpc = "dispatch"
    /\ ~Returned
    /\ dispatched < MaxBatch
    /\ \E i \in DOMAIN surfaces :
          /\ pending_callbacks[i] > 0
          /\ Redraw("frame", "render failed: ", i, surfaces, 1)
    /\ UNCHANGED geometry_events

\* a closed handler that sets exit and leaves the stop flag alone
Closed_without_stop ==
    /\ rpc = "dispatch"
    /\ ~Returned
    /\ dispatched < MaxBatch
    /\ surfaces # <<>>
    /\ last' = [NoCall EXCEPT !.h = "closed"]
    /\ exit' = TRUE
    /\ dispatched' = dispatched + 1
    /\ UNCHANGED <<lock_vars, env_vars, other_vars, frame_store, stop, ready, main_vars, rpc, rresult,
                   dmabuf_enabled, dmabuf_required, surfaces, fatal_error,
                   pending_callbacks, geometry_events, params_created, observed,
                   recorded, shm_attached>>

\* LayerShellHandler::closed
Closed ==
    /\ rpc = "dispatch"
    /\ ~Returned
    /\ dispatched < MaxBatch
    /\ surfaces # <<>>
    /\ last' = [NoCall EXCEPT !.h = "closed"]
    /\ exit' = TRUE
    /\ stop' = TRUE
    /\ dispatched' = dispatched + 1
    /\ UNCHANGED <<lock_vars, env_vars, other_vars, frame_store, ready, main_vars, rpc, rresult, dmabuf_enabled,
                   dmabuf_required, surfaces, fatal_error, pending_callbacks,
                   geometry_events, params_created, observed, recorded, shm_attached>>

\* DmabufHandler::failed: fatal when zero-copy is required, the fallback otherwise
Failed ==
    /\ rpc = "dispatch"
    /\ ~Returned
    /\ dispatched < MaxBatch
    /\ params_created
    /\ IF dmabuf_required
       THEN /\ fatal_error' = Some(<<"dmabuf buffer creation failed">>)
            /\ recorded' = Some(<<"dmabuf buffer creation failed">>)
            /\ exit' = TRUE
            /\ stop' = TRUE
            /\ UNCHANGED <<dmabuf_enabled, surfaces>>
       ELSE /\ dmabuf_enabled' = FALSE
            /\ surfaces' = disable_dmabuf(surfaces)
            /\ UNCHANGED <<fatal_error, recorded, exit, stop>>
    /\ last' = [h |-> "failed", surface |-> 0, ok |-> ~dmabuf_required, req |-> NoReq,
                fell_back |-> ~dmabuf_required]
    /\ dispatched' = dispatched + 1
    /\ UNCHANGED <<lock_vars, env_vars, other_vars, frame_store, ready, main_vars, rpc, rresult, dmabuf_required,
                   pending_callbacks, geometry_events, params_created, observed,
                   shm_attached>>

\* events with empty handlers (outputs, surface enter/leave, dmabuf feedback)
OtherEvent ==
    /\ rpc = "dispatch"
    /\ ~Returned
    /\ dispatched < MaxBatch
    /\ last' = [NoCall EXCEPT !.h = "other"]
    /\ dispatched' = dispatched + 1
    /\ UNCHANGED <<lock_vars, env_vars, other_vars, frame_store, stop, ready, main_vars, rpc, rresult,
                   dmabuf_enabled, dmabuf_required, surfaces, exit, fatal_error,
                   pending_callbacks, geometry_events, params_created, observed,
                   recorded, shm_attached>>

\* Vec::swap_remove: the last element takes the place of the removed one
SwapRemove(q, k) ==
    [j \in 1..(Len(q) - 1) |-> IF j = k THEN q[Len(q)] ELSE q[j]]

\* the tail of DmabufHandler::released: redraw surface i unless exit or stop is set
ReleasedThenRedraw(i, pre) ==
    IF ~exit /\ ~stop
    THEN Redraw("released", "dmabuf release redraw failed: ", i, pre, 0)
    ELSE /\ surfaces' = pre
         /\ last' = [NoCall EXCEPT !.h = "released", !.surface = i]
         /\ dispatched' = dispatched + 1
         /\ UNCHANGED <<lock_vars, env_vars, other_vars, frame_store, stop, ready, main_vars, rpc, rresult,
                        dmabuf_enabled, dmabuf_required, exit, fatal_error,
                        pending_callbacks, params_created, observed, recorded,
                        shm_attached>>

\* DmabufHandler::released for a buffer of a surface's pool
ReleasedPool ==
    /\ rpc = "dispatch"
    /\ ~Returned
    /\ dispatched < MaxBatch
    /\ \E i \in DOMAIN surfaces :
          \E k \in DOMAIN surfaces[i].dmabuf_buffers :
             /\ ~surfaces[i].dmabuf_buffers[k].released
             /\ ReleasedThenRedraw(i,
                   [surfaces EXCEPT ![i].dmabuf_buffers[k].released = TRUE])
    /\ UNCHANGED geometry_events

\* DmabufHandler::released for an imported buffer in flight
ReleasedImported ==
    /\ rpc = "dispatch"
    /\ ~Returned
    /\ dispatched < MaxBatch
    /\ \E i \in DOMAIN surfaces :
          \E k \in DOMAIN surfaces[i].imported_dmabuf_frames :
             ReleasedThenRedraw(i,
                [surfaces EXCEPT ![i].imported_dmabuf_frames = SwapRemove(@, k)])
    /\ UNCHANGED geometry_events

(***************************************************************************)
(* The specification: every scenario, every action.                        *)
(***************************************************************************)
Next ==
    \/ Spawn
    \/ RecvReady
    \/ RecvDisconnected
    \/ BlankStart
    \/ BlankLoopExit
    \/ BlankSleepDone
    \/ Join
    \/ BuildPipeline
    \/ LoopTop
    \/ Pull
    \/ Bus
    \/ ErrorJoin
    \/ Shutdown
    \/ RConnect
    \/ RDmabufSetup
    \/ RCreateSurfaces
    \/ RLoopCheck
    \/ RDispatchFail
    \/ RDispatchReturn
    \/ Configure
    \/ ScaleFactorChanged
    \/ TransformChanged
    \/ FrameCallback
    \/ Closed
    \/ Failed
    \/ OtherEvent
    \/ ReleasedPool
    \/ ReleasedImported

Spec == Init /\ [][Next]_vars

(***************************************************************************)
(* The specifications that are checked.  Each is Spec restricted to a      *)
(* family of scenarios; its next-state relation lists the actions that can *)
(* be taken from those scenarios.                                          *)
(***************************************************************************)
\* The startup handshake, from every combination of WAYBG_OUTPUT, WAYBG_DMABUF,
\* the scale mode and what the compositor and the kernel offer.  A run in which the
\* startup fails takes these steps only.
StartupScenarios ==
    [args : [input : {VideoFile}, loop_playback : {FALSE}, metrics : {FALSE},
             output : RequestedNames, dmabuf_mode : DmabufModes,
             scale_mode : ScaleModes],
     compositor : Compositors,
     dma_heap : BOOLEAN,
     limits : [frames : {0}, samples : {Samples}, geometry : {0},
               time_steps : {{250}}]]

StartupNext ==
    \/ Spawn
    \/ RecvReady
    \/ RecvDisconnected
    \/ RConnect
    \/ RDmabufSetup
    \/ RCreateSurfaces

SpecStartup == Start(StartupScenarios) /\ [][StartupNext]_vars

\* The decode thread in full (blank and video sources, looping, metrics) beside a
\* renderer that uses shared memory on one output.
DecodeScenarios ==
    [args : [input : {BLANK_VIDEO_URI, VideoFile}, loop_playback : BOOLEAN, metrics : BOOLEAN,
             output : {None}, dmabuf_mode : {"Off"}, scale_mode : {"Fit"}],
     compositor : [outputs : {<<Some("DP-1")>>}, dmabuf : {FALSE}, viewporter : {FALSE}],
     dma_heap : {FALSE},
     limits : [frames : {MaxFrames}, samples : {Samples}, geometry : {0},
               time_steps : {{250}}]]

DecodeNext ==
    \/ Spawn
    \/ RecvReady
    \/ RecvDisconnected
    \/ BlankStart
    \/ BlankLoopExit
    \/ BlankSleepDone
    \/ Join
    \/ BuildPipeline
    \/ LoopTop
    \/ Pull
    \/ Bus
    \/ ErrorJoin
    \/ Shutdown
    \/ RConnect
    \/ RDmabufSetup
    \/ RCreateSurfaces
    \/ RLoopCheck
    \/ RDispatchFail
    \/ RDispatchReturn
    \/ Configure
    \/ ScaleFactorChanged
    \/ TransformChanged
    \/ FrameCallback
    \/ Closed
    \/ OtherEvent

SpecDecode == Start(DecodeScenarios) /\ [][DecodeNext]_vars

\* The self-allocated pool and the fallback: WAYBG_DMABUF=auto with zero-copy
\* available; a video of system-memory or dmabuf samples on one output scaled by
\* the compositor, and a blank source on two outputs.
PoolScenarios ==
    [args : [input : {VideoFile}, loop_playback : {FALSE}, metrics : {FALSE},
             output : {None}, dmabuf_mode : {"Auto"}, scale_mode : {"Fill"}],
     compositor : [outputs : {<<Some("DP-1")>>}, dmabuf : {TRUE}, viewporter : {TRUE}],
     dma_heap : {TRUE},
     limits : [frames : {MaxFrames - 1}, samples : {{SystemSample, DmabufSample}},
               geometry : {0}, time_steps : {{250}}]]
    \cup
    [args : [input : {BLANK_VIDEO_URI}, loop_playback : {TRUE}, metrics : {FALSE},
             output : {None}, dmabuf_mode : {"Auto"}, scale_mode : {"Fill"}],
     compositor : [outputs : {<<Some("DP-1"), None>>}, dmabuf : {TRUE},
                   viewporter : {FALSE}],
     dma_heap : {TRUE},
     limits : [frames : {0}, samples : {{SystemSample}}, geometry : {0},
               time_steps : {{250}}]]

PoolNext ==
    \/ Spawn
    \/ RecvReady
    \/ RecvDisconnected
    \/ BlankStart
    \/ BlankLoopExit
    \/ Join
    \/ BuildPipeline
    \/ LoopTop
    \/ Pull
    \/ Bus
    \/ ErrorJoin
    \/ Shutdown
    \/ RConnect
    \/ RDmabufSetup
    \/ RCreateSurfaces
    \/ RLoopCheck
    \/ RDispatchFail
    \/ RDispatchReturn
    \/ Configure
    \/ ScaleFactorChanged
    \/ TransformChanged
    \/ FrameCallback
    \/ Closed
    \/ Failed
    \/ OtherEvent
    \/ ReleasedPool
    \/ ReleasedImported

SpecPool == Start(PoolScenarios) /\ [][PoolNext]_vars

\* Direct import: a video of single-plane dmabuf samples on one output scaled by the
\* compositor, with WAYBG_DMABUF=auto and with WAYBG_DMABUF=on.
ImportScenarios ==
    [args : [input : {VideoFile}, loop_playback : {FALSE}, metrics : {FALSE},
             output : {None}, dmabuf_mode : {"Auto", "On"}, scale_mode : {"Fill"}],
     compositor : [outputs : {<<Some("DP-1")>>}, dmabuf : {TRUE}, viewporter : {TRUE}],
     dma_heap : {TRUE},
     limits : [frames : {MaxFrames - 1}, samples : {{DmabufSample}},
               geometry : {MaxGeometryEvents}, time_steps : {{250}}]]

ImportNext ==
    \/ Spawn
    \/ RecvReady
    \/ RecvDisconnected
    \/ Join
    \/ BuildPipeline
    \/ LoopTop
    \/ Pull
    \/ Bus
    \/ ErrorJoin
    \/ Shutdown
    \/ RConnect
    \/ RDmabufSetup
    \/ RCreateSurfaces
    \/ RLoopCheck
    \/ RDispatchFail
    \/ RDispatchReturn
    \/ Configure
    \/ ScaleFactorChanged
    \/ TransformChanged
    \/ FrameCallback
    \/ Closed
    \/ Failed
    \/ OtherEvent
    \/ ReleasedPool
    \/ ReleasedImported

SpecImport == Start(ImportScenarios) /\ [][ImportNext]_vars

\* Shutdown without looping: a blank source and a video, beside a renderer that
\* uses shared memory on one output.  The scheduler is fair to the two threads:
\* a step one of them can take is eventually taken.  Nothing obliges the
\* compositor to send an event, nor the connection to fail.
ShutdownScenarios ==
    [args : [input : {BLANK_VIDEO_URI, VideoFile}, loop_playback : {FALSE}, metrics : {FALSE},
             output : {None}, dmabuf_mode : {"Off"}, scale_mode : {"Fit"}],
     compositor : [outputs : {<<Some("DP-1")>>}, dmabuf : {FALSE}, viewporter : {FALSE}],
     dma_heap : {FALSE},
     limits : [frames : {MaxFrames - 1}, samples : {{SystemSample}}, geometry : {0},
               time_steps : {{250}}]]

ShutdownNext ==
    \/ Spawn
    \/ RecvReady
    \/ RecvDisconnected
    \/ BlankStart
    \/ BlankSleepDone
    \/ Join
    \/ BuildPipeline
    \/ LoopTop
    \/ Pull
    \/ Bus
    \/ ErrorJoin
    \/ Shutdown
    \/ RConnect
    \/ RDmabufSetup
    \/ RCreateSurfaces
    \/ RLoopCheck
    \/ RDispatchFail
    \/ RDispatchReturn
    \/ Configure
    \/ ScaleFactorChanged
    \/ TransformChanged
    \/ FrameCallback
    \/ Closed
    \/ OtherEvent

\* the steps of the calling thread, play_video_layer_shell
CallingThread ==
    \/ Spawn
    \/ RecvReady
    \/ RecvDisconnected
    \/ BlankStart
    \/ BlankSleepDone
    \/ Join
    \/ BuildPipeline
    \/ LoopTop
    \/ Pull
    \/ Bus
    \/ ErrorJoin
    \/ Shutdown

\* the steps the render thread takes by itself; blocking_dispatch returns only
\* after it has handled an event
RenderThread ==
    \/ RConnect
    \/ RDmabufSetup
    \/ RCreateSurfaces
    \/ RLoopCheck
    \/ RDispatchReturn

SpecShutdownFair ==
    /\ Start(ShutdownScenarios)
    /\ [][ShutdownNext]_vars
    /\ WF_vars(CallingThread)
    /\ WF_vars(RenderThread)

(***************************************************************************)
(* The mailbox mutex, step by step.  The same code as Pull and Redraw,     *)
(* taken one lock operation at a time: Mutex::lock blocks while the other  *)
(* thread holds the mutex, and the guard is dropped at the end of the      *)
(* statement (render thread) or of the if-let block (decode thread).       *)
(***************************************************************************)

\* try_pull_sample and sample_to_frame_payload, before the mailbox is touched
PullSample ==
    /\ mpc = "pull"
    /\ \E pulled \in BOOLEAN, map_ok \in BOOLEAN, dt \in limits.time_steps :
          LET now == Elapse(clock, dt, recorder.exists)
              in_time == now <= MaxClock
          IN  /\ clock' = IF in_time THEN now ELSE clock
              /\ IF pulled /\ decoded < limits.frames /\ in_time
                 THEN /\ decoded' = decoded + 1
                      /\ mpc' = IF map_ok THEN "lock_slot" ELSE "bus"
                 ELSE /\ mpc' = "bus"
                      /\ UNCHANGED decoded
    /\ UNCHANGED <<lock_vars, env_vars, other_vars, drained, frame_store, stop, ready, result,
                   joined, pipeline, latest, recorder, metrics_file, render_vars>>

\* frame_store.lock() on the decode thread: waits until the mutex is free
LockSlot ==
    /\ mpc = "lock_slot"
    /\ frame_store_lock = "free"
    /\ frame_store_lock' = "decode"
    /\ mpc' = "replace_slot"
    /\ UNCHANGED <<draw_call, env_vars, other_vars, drained, clock, frame_store, stop, ready, result, joined,
                   pipeline, decoded, latest, recorder, metrics_file, render_vars>>

\* *slot = Some(frame_payload), and the guard dropped at the end of the if-let block
ReplaceSlot ==
    /\ mpc = "replace_slot"
    /\ frame_store_lock = "decode"
    /\ \E sample \in limits.samples :
          LET p == sample_to_frame_payload(sample, args.dmabuf_mode # "Off", decoded, TRUE)
          IN  /\ frame_store' = StoreFrame(frame_store, p.payload)
              /\ latest' = p.payload.seq
    /\ frame_store_lock' = "free"
    /\ mpc' = "record"
    /\ UNCHANGED <<draw_call, env_vars, other_vars, drained, clock, stop, ready, result, joined, pipeline, decoded,
                   recorder, metrics_file, render_vars>>

\* record_frame and flush_if_due(false, None) after the mailbox was replaced
RecordMetrics ==
    /\ mpc = "record"
    /\ mpc' = "bus"
    /\ LET rec == record_frame(recorder, clock)
           fl == flush_if_due(rec, metrics_file, FALSE, clock, <<>>)
       IN  IF recorder.exists
           THEN recorder' = fl.rec /\ metrics_file' = fl.file
           ELSE UNCHANGED <<recorder, metrics_file>>
    /\ UNCHANGED <<lock_vars, env_vars, other_vars, drained, clock, frame_store, stop, ready,
                   result, joined, pipeline, decoded, latest, render_vars>>

\* a handler has changed surface i to `pre` and calls draw_surface, which starts with
\* frame_store.lock() and waits until the mutex is free
DrawLock(h, prefix, i, pre, consumed) ==
    /\ rpc = "dispatch"
    /\ ~Returned
    /\ dispatched < MaxBatch
    /\ draw_call.stage = "idle"
    /\ frame_store_lock = "free"
    /\ pending_callbacks[i] - consumed + 1 <= MaxCallbacks
    /\ surfaces' = pre
    /\ frame_store_lock' = "render"
    /\ draw_call' = [stage |-> "locked", h |-> h, prefix |-> prefix,
                     surface_index |-> i, consumed |-> consumed,
                     current_frame |-> NoFrame]
    /\ UNCHANGED <<env_vars, other_vars, frame_store, stop, ready, main_vars, rpc, rresult,
                   dmabuf_enabled, dmabuf_required, exit, fatal_error, dispatched,
                   pending_callbacks, params_created, last, observed, recorded,
                   shm_attached>>

\* LayerShellHandler::configure up to the lock of its draw_surface call
ConfigureLock ==
    /\ geometry_events < limits.geometry + Len(surfaces)
    /\ \E i \in DOMAIN surfaces, size \in ConfigureSizes :
          LET width == Max(size[1], 1)
              height == Max(size[2], 1)
              s == surfaces[i]
              resized == IF s.width # width \/ s.height # height
                         THEN [Invalidate(s) EXCEPT !.width = width, !.height = height]
                         ELSE s
              pre == [surfaces EXCEPT ![i] = [resized EXCEPT !.first_configure = FALSE]]
          IN  DrawLock("configure", "configure redraw failed: ", i, pre, 0)
    /\ geometry_events' = geometry_events + 1

\* CompositorHandler::frame up to the lock of its draw_surface call
FrameCallbackLock ==
    /\ \E i \in DOMAIN surfaces :
          /\ pending_callbacks[i] > 0
          /\ DrawLock("frame", "render failed: ", i, surfaces, 1)
    /\ UNCHANGED geometry_events

\* a draw_surface that keeps the mutex guard alive until the draw has finished
CloneFrame_keeping_guard ==
    /\ draw_call.stage = "locked"
    /\ frame_store_lock = "render"
    /\ draw_call' = [draw_call EXCEPT !.stage = "cloned", !.current_frame = frame_store]
    /\ UNCHANGED <<frame_store_lock, env_vars, other_vars, frame_store, stop, ready, main_vars,
                   render_vars>>

\* .clone() of the slot, and the guard dropped at the end of the statement
CloneFrame ==
    /\ draw_call.stage = "locked"
    /\ frame_store_lock = "render"
    /\ draw_call' = [draw_call EXCEPT !.stage = "cloned", !.current_frame = frame_store]
    /\ frame_store_lock' = "free"
    /\ UNCHANGED <<env_vars, other_vars, frame_store, stop, ready, main_vars, render_vars>>

\* the rest of draw_surface, on the cloned payload, and the handler's error handling
DrawCloned ==
    /\ draw_call.stage = "cloned"
    /\ RedrawFrame(draw_call.h, draw_call.prefix, draw_call.surface_index, surfaces,
                   draw_call.consumed, draw_call.current_frame)
    /\ draw_call' = NoDraw
    /\ UNCHANGED <<frame_store_lock, geometry_events>>

\* the closed notification, delivered between two handlers
ClosedBetweenDraws ==
    /\ draw_call.stage = "idle"
    /\ Closed

\* blocking_dispatch returns once the handler in progress has finished
RDispatchReturnAfterDraw ==
    /\ draw_call.stage = "idle"
    /\ RDispatchReturn

\* The mailbox under both threads: video playback on one output, shared memory only.
MailboxScenarios ==
    [args : [input : {VideoFile}, loop_playback : BOOLEAN, metrics : BOOLEAN,
             output : {None}, dmabuf_mode : {"Off"}, scale_mode : {"Fit"}],
     compositor : [outputs : {<<Some("DP-1")>>}, dmabuf : {FALSE}, viewporter : {FALSE}],
     dma_heap : {FALSE},
     limits : [frames : {MaxFrames}, samples : {{SystemSample}}, geometry : {0},
               time_steps : {{250}}]]

MailboxNext ==
    \/ Spawn
    \/ RecvReady
    \/ RecvDisconnected
    \/ Join
    \/ BuildPipeline
    \/ LoopTop
    \/ PullSample
    \/ LockSlot
    \/ ReplaceSlot
    \/ RecordMetrics
    \/ Bus
    \/ ErrorJoin
    \/ Shutdown
    \/ RConnect
    \/ RDmabufSetup
    \/ RCreateSurfaces
    \/ RLoopCheck
    \/ RDispatchReturnAfterDraw
    \/ ConfigureLock
    \/ FrameCallbackLock
    \/ CloneFrame
    \/ DrawCloned
    \/ ClosedBetweenDraws

SpecMailbox == Start(MailboxScenarios) /\ [][MailboxNext]_vars

(***************************************************************************)
(* MetricsRecorder::record_frame on its own: recorders that have already   *)
(* received some frames, up to and past the capacity of the history, are   *)
(* given further frames.  decoded counts the calls.                        *)
(***************************************************************************)

\* the rate of the a-th sample a recorder was given before the run starts
EarlierRate(a) == 1 + (a % 7)

\* a recorder that has taken count samples, the last frame at instant 0
LoadedRecorder(count) ==
    LET n == Min(count, METRICS_HISTORY_CAPACITY)
    IN  [exists |-> TRUE, previous |-> TRUE, previous_frame_instant |-> 0,
         sample_count |-> count,
         samples |-> [j \in 1..n |-> EarlierRate(count - n + j)],
         last_fps |-> IF count = 0 THEN 0 ELSE EarlierRate(count),
         last_flush_instant |-> 0]

\* a new recorder, and recorders around the capacity of the history
RecorderInputs ==
    {MetricsRecorder_new(0)}
    \cup {LoadedRecorder(count) :
             count \in {0, 1, METRICS_HISTORY_CAPACITY - 1, METRICS_HISTORY_CAPACITY,
                        METRICS_HISTORY_CAPACITY + 1}}

RecorderScenarios ==
    [args : [input : {VideoFile}, loop_playback : {FALSE}, metrics : {TRUE},
             output : {None}, dmabuf_mode : {"Off"}, scale_mode : {"Fit"}],
     compositor : [outputs : {<<Some("DP-1")>>}, dmabuf : {FALSE}, viewporter : {FALSE}],
     dma_heap : {FALSE},
     limits : [frames : {MaxRecorded}, samples : {{SystemSample}}, geometry : {0},
               time_steps : {{0, 100, 250}}]]

\* recorder.record_frame(), dt ms after the previous reading of the clock
RecordFrameCall ==
    /\ decoded < limits.frames
    /\ \E dt \in limits.time_steps :
          /\ clock + dt <= MaxClock
          /\ clock' = clock + dt
          /\ recorder' = record_frame(recorder, clock + dt)
    /\ decoded' = decoded + 1
    /\ UNCHANGED <<lock_vars, env_vars, other_vars, drained, frame_store, stop, ready, mpc, result,
                   joined, pipeline, latest, metrics_file, render_vars>>

RecorderNext == RecordFrameCall

SpecRecorder == StartFrom(RecorderScenarios, RecorderInputs) /\ [][RecorderNext]_vars

(***************************************************************************)
(* The metrics of a video that plays once: loop iterations of 100 ms and   *)
(* of 250 ms, so that a flush may or may not be due when a frame arrives.  *)
(***************************************************************************)
MetricsScenarios ==
    [args : [input : {VideoFile}, loop_playback : {FALSE}, metrics : {TRUE},
             output : {None}, dmabuf_mode : {"Off"}, scale_mode : {"Fit"}],
     compositor : [outputs : {<<Some("DP-1")>>}, dmabuf : {FALSE}, viewporter : {FALSE}],
     dma_heap : {FALSE},
     limits : [frames : {MaxFrames}, samples : {{SystemSample}}, geometry : {0},
               time_steps : {TimeSteps}]]

MetricsNext ==
    \/ Spawn
    \/ RecvReady
    \/ RecvDisconnected
    \/ Join
    \/ BuildPipeline
    \/ LoopTop
    \/ Pull
    \/ Bus
    \/ ErrorJoin
    \/ Shutdown
    \/ RConnect
    \/ RDmabufSetup
    \/ RCreateSurfaces
    \/ RLoopCheck
    \/ RDispatchReturn
    \/ OtherEvent

SpecMetrics == Start(MetricsScenarios) /\ [][MetricsNext]_vars

(***************************************************************************)
(* Blank sources: every source of SourceInputs, on one output, with shared *)
(* memory only.                                                            *)
(***************************************************************************)
BlankScenarios ==
    [args : [input : SourceInputs, loop_playback : BOOLEAN, metrics : BOOLEAN,
             output : {None}, dmabuf_mode : {"Off"}, scale_mode : {"Fit"}],
     compositor : [outputs : {<<Some("DP-1")>>}, dmabuf : {FALSE}, viewporter : {FALSE}],
     dma_heap : {FALSE},
     limits : [frames : {MaxFrames - 1}, samples : {{SystemSample}}, geometry : {0},
               time_steps : {{250}}]]

BlankNext ==
    \/ Spawn
    \/ RecvReady
    \/ RecvDisconnected
    \/ BlankStart
    \/ BlankLoopExit
    \/ BlankSleepDone
    \/ Join
    \/ BuildPipeline
    \/ LoopTop
    \/ Pull
    \/ Bus
    \/ ErrorJoin
    \/ Shutdown
    \/ RConnect
    \/ RDmabufSetup
    \/ RCreateSurfaces
    \/ RLoopCheck
    \/ RDispatchReturn
    \/ Configure
    \/ FrameCallback
    \/ Closed

SpecBlank == Start(BlankScenarios) /\ [][BlankNext]_vars

(***************************************************************************)
(* The metrics file, byte by byte: write_metrics_snapshot rewrites the     *)
(* file in place with fs::write, which empties it and then writes the new  *)
(* content in one or more write calls, while another process reads it as   *)
(* load_metrics_snapshot does.                                             *)
(***************************************************************************)
MetricsFileScenarios ==
    [args : [input : {VideoFile}, loop_playback : {FALSE}, metrics : {TRUE},
             output : {None}, dmabuf_mode : {"Off"}, scale_mode : {"Fit"}],
     compositor : [outputs : {<<Some("DP-1")>>}, dmabuf : {FALSE}, viewporter : {FALSE}],
     dma_heap : {FALSE},
     limits : [frames : {MaxRecorded}, samples : {{SystemSample}}, geometry : {0},
               time_steps : {TimeSteps}]]

\* what a read of the whole file returns at this moment
FileContent ==
    IF stored = 0 THEN "empty"
    ELSE IF stored < MaxChunks THEN "truncated"
    ELSE "complete"

\* record_frame and flush_if_due up to the opening of the file by fs::write:
\* File::create leaves an existing file empty
FileCreate ==
    /\ stored = MaxChunks
    /\ decoded < limits.frames
    /\ \E dt \in limits.time_steps, force \in BOOLEAN :
          LET now == clock + dt
              rec == record_frame(recorder, now)
              fl == flush_if_due(rec, metrics_file, force, now, <<>>)
          IN  /\ now <= MaxClock
              /\ clock' = now
              /\ recorder' = rec
              /\ metrics_file' = fl.file
              /\ stored' = IF fl.file = metrics_file THEN stored ELSE 0
    /\ decoded' = decoded + 1
    /\ UNCHANGED <<lock_vars, env_vars, controller_vars, loaded, call, drained, frame_store, stop, ready, mpc,
                   result, joined, pipeline, latest, render_vars>>

\* one write call of fs::write's write_all; after the last one flush_if_due
\* sets last_flush_instant
FileWrite ==
    /\ stored < MaxChunks
    /\ \E n \in (stored + 1)..MaxChunks :
          /\ stored' = n
          /\ recorder' = IF n = MaxChunks
                         THEN [recorder EXCEPT !.last_flush_instant = clock]
                         ELSE recorder
    /\ UNCHANGED <<lock_vars, env_vars, controller_vars, loaded, call, drained, frame_store, stop, ready, mpc,
                   result, joined, pipeline, decoded, latest, metrics_file, clock,
                   render_vars>>

\* load_metrics_snapshot opens the file: an error if there is none
ReadOpen ==
    /\ loaded.state = "idle"
    /\ loaded' = IF metrics_file.exists
                 THEN [state |-> "reading", began |-> metrics_file.writes,
                       result |-> loaded.result]
                 ELSE [state |-> "idle", began |-> 0, result |-> "not_found"]
    /\ UNCHANGED <<lock_vars, env_vars, controller_vars, stored, call, main_vars, frame_store, stop, ready,
                   render_vars>>

\* fs::read_to_string reads to the end of the file and serde_json parses what was
\* read: bytes of two writes if the file was rewritten since it was opened
ReadToEnd ==
    /\ loaded.state = "reading"
    /\ loaded' = [state |-> "idle", began |-> 0,
                  result |-> IF metrics_file.writes # loaded.began
                             THEN "mixed"
                             ELSE FileContent]
    /\ UNCHANGED <<lock_vars, env_vars, controller_vars, stored, call, main_vars, frame_store, stop, ready,
                   render_vars>>

MetricsFileNext ==
    \/ FileCreate
    \/ FileWrite
    \/ ReadOpen
    \/ ReadToEnd

SpecMetricsFile ==
    StartFrom(MetricsFileScenarios, {MetricsRecorder_new(0), LoadedRecorder(1)})
        /\ [][MetricsFileNext]_vars

(***************************************************************************)
(* The parsers on their own: each is given one of ModeInputs.              *)
(***************************************************************************)
ParserCalls ==
    [fn : {"parse_backend", "parse_scale_mode", "parse_dmabuf_mode"},
     value : ModeInputs, niri : BOOLEAN, returned : {FALSE}, out : {Pending}]

ParseBackend ==
    /\ call.fn = "parse_backend"
    /\ ~call.returned
    /\ call' = [call EXCEPT !.returned = TRUE, !.out = parse_backend(call.value, call.niri)]
    /\ UNCHANGED <<lock_vars, env_vars, controller_vars, stored, loaded, main_vars, frame_store, stop,
                   ready, render_vars>>

ParseScaleMode ==
    /\ call.fn = "parse_scale_mode"
    /\ ~call.returned
    /\ call' = [call EXCEPT !.returned = TRUE, !.out = parse_scale_mode(call.value)]
    /\ UNCHANGED <<lock_vars, env_vars, controller_vars, stored, loaded, main_vars, frame_store, stop,
                   ready, render_vars>>

ParseDmabufMode ==
    /\ call.fn = "parse_dmabuf_mode"
    /\ ~call.returned
    /\ call' = [call EXCEPT !.returned = TRUE, !.out = parse_dmabuf_mode(call.value)]
    /\ UNCHANGED <<lock_vars, env_vars, controller_vars, stored, loaded, main_vars, frame_store, stop,
                   ready, render_vars>>

ParsersNext ==
    \/ ParseBackend
    \/ ParseScaleMode
    \/ ParseDmabufMode

SpecParsers ==
    StartWith(RecorderScenarios, {NoRecorder}, ParserCalls) /\ [][ParsersNext]_vars

(***************************************************************************)
(* percentile_low_fps on its own: one of SampleLists and one of KeepRatios.*)
(***************************************************************************)
PercentileCalls ==
    [fn : {"percentile_low_fps"}, samples : SampleLists, keep_ratio : KeepRatios,
     returned : {FALSE}, out : {0}]

PercentileLowFps ==
    /\ call.fn = "percentile_low_fps"
    /\ ~call.returned
    /\ call' = [call EXCEPT !.returned = TRUE,
                            !.out = percentile_low_fps(call.samples, call.keep_ratio)]
    /\ UNCHANGED <<lock_vars, env_vars, controller_vars, stored, loaded, main_vars, frame_store, stop,
                   ready, render_vars>>

PercentileNext == PercentileLowFps

SpecPercentile ==
    StartWith(RecorderScenarios, {NoRecorder}, PercentileCalls)
        /\ [][PercentileNext]_vars

(***************************************************************************)
(* The AutoController: tick, write_manual_override and shutdown in any     *)
(* order, with a launcher whose spawns may fail and an override store      *)
(* whose reads may fail.                                                   *)
(***************************************************************************)
\* the start and end texts of schedules
T0800 == <<"0", "8", ":", "0", "0">>

T1800 == <<"1", "8", ":", "0", "0">>

T0000 == <<"0", "0", ":", "0", "0">>

T2500 == <<"2", "5", ":", "0", "0">>

TNOON == <<"n", "o", "o", "n">>

ScheduleTimes == {T0800, T1800, T0000, T2500, TNOON}

DayProfile ==
    [name |-> "day", video |-> "day.mp4", outputs |-> <<>>,
     schedule |-> Some([start |-> T0800, end |-> T1800,
                        weekdays |-> <<1, 2, 3, 4, 5>>])]

NightProfile ==
    [name |-> "night", video |-> "night.mp4", outputs |-> <<>>,
     schedule |-> Some([start |-> T1800, end |-> T0800, weekdays |-> <<>>])]

BlankProfile ==
    [name |-> "blank", video |-> "blank://", outputs |-> <<>>, schedule |-> None]

\* day with one video per output
DayPerOutput ==
    [name |-> "day", video |-> "day.mp4",
     outputs |-> <<[output |-> "eDP-1", video |-> "laptop-day.mp4"],
                   [output |-> "HDMI-A-1", video |-> "external-day.mp4"]>>,
     schedule |-> Some([start |-> T0800, end |-> T1800,
                        weekdays |-> <<1, 2, 3, 4, 5>>])]

\* a schedule whose texts are not times
BrokenProfile ==
    [name |-> "broken", video |-> "broken.mp4", outputs |-> <<>>,
     schedule |-> Some([start |-> T2500, end |-> TNOON, weekdays |-> <<>>])]

\* a schedule that starts when it ends
AlwaysProfile ==
    [name |-> "always", video |-> "always.mp4", outputs |-> <<>>,
     schedule |-> Some([start |-> T0000, end |-> T0000, weekdays |-> <<6, 7>>])]

Settings(default_profile, mute) == [default_profile |-> default_profile, mute |-> mute]

\* the configurations the controller is ticked with
ControllerConfigs ==
    {[settings |-> Settings(Some("blank"), mute),
      profiles |-> <<DayProfile, NightProfile, BlankProfile>>] : mute \in BOOLEAN}
        \cup {[settings |-> Settings(None, FALSE),
               profiles |-> <<DayPerOutput, NightProfile>>],
              [settings |-> Settings(None, FALSE), profiles |-> <<>>]}

\* Monday 10:00, Monday 20:00 and Saturday 10:00
Nows ==
    {[weekday |-> 1, time |-> 600], [weekday |-> 1, time |-> 1200],
     [weekday |-> 6, time |-> 600]}

\* what write_manual_override is given
OverrideNames == {None, Some("night"), Some("missing")}

\* the longest target list of ControllerConfigs
MaxTargets == 2

\* AutoController::tick: fail_at is the target whose spawn fails (0: none)
Tick ==
    /\ tick_result.n < MaxTicks
    /\ \E config \in ControllerConfigs, now \in Nows, read_ok \in BOOLEAN,
          fail_at \in 0..MaxTargets :
          LET n == tick_result.n + 1
              profile == pick_profile(config, override_file, now)
              targets == render_targets(profile.v)
              active_video == summarize_render_targets(targets)
              mute == config.settings.mute
              failed == [NoTick EXCEPT !.op = "tick", !.n = n, !.ok = FALSE]
              ticked == [op |-> "tick", n |-> n, ok |-> TRUE, changed |-> FALSE,
                         active_profile_name |-> profile.v.name,
                         active_video |-> active_video, mute |-> mute]
              drained_log ==
                  drain_and_terminate(launch_log, controller.running_processes, n)
          IN  IF ~read_ok \/ ~profile.some
              THEN /\ fail_at = 0
                   /\ tick_result' = failed
                   /\ UNCHANGED <<controller, launch_log>>
              ELSE IF ~should_restart(controller, profile.v.name, active_video, mute)
              THEN /\ fail_at = 0
                   /\ tick_result' = ticked
                   /\ UNCHANGED <<controller, launch_log>>
              ELSE IF fail_at \in 1..Len(targets)
              THEN /\ launch_log' =
                          drain_and_terminate(
                              Append(spawn_each(drained_log, targets, fail_at - 1,
                                                mute, n),
                                     spawn_failed(targets[fail_at], mute, n)),
                              started_ids(drained_log, fail_at - 1), n)
                   /\ controller' = [controller EXCEPT !.running_processes = <<>>]
                   /\ tick_result' =
                          [failed EXCEPT !.active_profile_name = profile.v.name,
                                         !.active_video = active_video,
                                         !.mute = mute]
              ELSE /\ fail_at = 0
                   /\ launch_log' =
                          spawn_each(drained_log, targets, Len(targets), mute, n)
                   /\ controller' =
                          [active_profile_name |-> Some(profile.v.name),
                           active_render_signature |-> Some(active_video),
                           active_mute |-> Some(mute),
                           running_processes |->
                               started_ids(drained_log, Len(targets))]
                   /\ tick_result' = [ticked EXCEPT !.changed = TRUE]
    /\ UNCHANGED <<lock_vars, env_vars, stored, loaded, call, override_file, main_vars,
                   frame_store, stop, ready, render_vars>>

\* AutoController::write_manual_override through the OverrideStore; a write that
\* fails leaves the store as it was
WriteManualOverride ==
    /\ \E profile \in OverrideNames, write_ok \in BOOLEAN :
          /\ override_file' = IF write_ok THEN profile ELSE override_file
          /\ tick_result' = [NoTick EXCEPT !.op = "write_manual_override",
                                           !.n = tick_result.n, !.ok = write_ok]
    /\ UNCHANGED <<lock_vars, env_vars, stored, loaded, call, controller, launch_log,
                   main_vars, frame_store, stop, ready, render_vars>>

\* AutoController::shutdown
ControllerShutdown ==
    /\ launch_log' = drain_and_terminate(launch_log, controller.running_processes,
                                         tick_result.n)
    /\ controller' = AutoController_new
    /\ tick_result' = [NoTick EXCEPT !.op = "shutdown", !.n = tick_result.n]
    /\ UNCHANGED <<lock_vars, env_vars, stored, loaded, call, override_file, main_vars,
                   frame_store, stop, ready, render_vars>>

ControllerNext ==
    \/ Tick
    \/ WriteManualOverride
    \/ ControllerShutdown

SpecController ==
    StartWith(RecorderScenarios, {NoRecorder}, {NotCalled}) /\ [][ControllerNext]_vars

(***************************************************************************)
(* pick_profile on its own: profile lists of up to MaxProfiles profiles,   *)
(* with and without a default profile and a manual override.               *)
(***************************************************************************)
PickConfigs ==
    [settings : {Settings(default_profile, FALSE) :
                    default_profile \in {None, Some("blank"), Some("night"),
                                         Some("missing")}},
     profiles : SeqsUpTo({DayProfile, NightProfile, BlankProfile, BrokenProfile,
                          AlwaysProfile}, MaxProfiles)]

PickCalls ==
    [fn : {"pick_profile"}, config : PickConfigs, manual_override : OverrideNames,
     now : Nows, returned : {FALSE}, out : {None}]

PickProfile ==
    /\ call.fn = "pick_profile"
    /\ ~call.returned
    /\ call' = [call EXCEPT !.returned = TRUE,
                            !.out = pick_profile(call.config, call.manual_override,
                                                 call.now)]
    /\ UNCHANGED <<lock_vars, env_vars, controller_vars, stored, loaded, main_vars,
                   frame_store, stop, ready, render_vars>>

PickNext == PickProfile

SpecPickProfile ==
    StartWith(RecorderScenarios, {NoRecorder}, PickCalls) /\ [][PickNext]_vars

(***************************************************************************)
(* Geometry notifications: MaxGeometryEvents size, scale-factor or         *)
(* transform notifications beyond the first configure of each surface, for *)
(* a video of dmabuf samples on one output scaled by the compositor and    *)
(* for a blank source on two outputs drawn through shared memory.          *)
(***************************************************************************)
GeometryScenarios ==
    [args : [input : {VideoFile}, loop_playback : {FALSE}, metrics : {FALSE},
             output : {None}, dmabuf_mode : {"Auto"}, scale_mode : {"Fill"}],
     compositor : [outputs : {<<Some("DP-1")>>}, dmabuf : {TRUE}, viewporter : {TRUE}],
     dma_heap : {TRUE},
     limits : [frames : {MaxFrames - 1}, samples : {{DmabufSample}},
               geometry : {MaxGeometryEvents}, time_steps : {{250}}]]
    \cup
    [args : [input : {BLANK_VIDEO_URI}, loop_playback : {TRUE}, metrics : {FALSE},
             output : {None}, dmabuf_mode : {"Auto"}, scale_mode : {"Fill"}],
     compositor : [outputs : {<<Some("DP-1"), Some("HDMI-A-1")>>}, dmabuf : {FALSE},
                   viewporter : {FALSE}],
     dma_heap : {FALSE},
     limits : [frames : {0}, samples : {{SystemSample}},
               geometry : {MaxGeometryEvents}, time_steps : {{250}}]]

GeometryNext ==
    \/ Spawn
    \/ RecvReady
    \/ RecvDisconnected
    \/ BlankStart
    \/ BlankLoopExit
    \/ Join
    \/ BuildPipeline
    \/ LoopTop
    \/ Pull
    \/ Bus
    \/ ErrorJoin
    \/ Shutdown
    \/ RConnect
    \/ RDmabufSetup
    \/ RCreateSurfaces
    \/ RLoopCheck
    \/ RDispatchReturn
    \/ Configure
    \/ ScaleFactorChanged
    \/ TransformChanged
    \/ FrameCallback
    \/ ReleasedPool
    \/ ReleasedImported

SpecGeometry == Start(GeometryScenarios) /\ [][GeometryNext]_vars

(***************************************************************************)
(* What a redraw submits: a video of system-memory, single-plane dmabuf    *)
(* and two-plane NV12 dmabuf samples on one output, with WAYBG_DMABUF=auto *)
(* with and without linux-dmabuf (zero-copy enabled and disabled), with    *)
(* and without the viewporter and under every scale mode, and with         *)
(* WAYBG_DMABUF=on scaled by the compositor.                               *)
(***************************************************************************)
ContentScenarios ==
    [args : [input : {VideoFile}, loop_playback : {FALSE}, metrics : {FALSE},
             output : {None}, dmabuf_mode : {"Auto"}, scale_mode : ScaleModes],
     compositor : [outputs : {<<Some("DP-1")>>}, dmabuf : BOOLEAN,
                   viewporter : BOOLEAN],
     dma_heap : {TRUE},
     limits : [frames : {MaxFrames}, samples : {Samples}, geometry : {0},
               time_steps : {{250}}]]
    \cup
    [args : [input : {VideoFile}, loop_playback : {FALSE}, metrics : {FALSE},
             output : {None}, dmabuf_mode : {"On"}, scale_mode : {"Fill"}],
     compositor : [outputs : {<<Some("DP-1")>>}, dmabuf : {TRUE},
                   viewporter : {TRUE}],
     dma_heap : {TRUE},
     limits : [frames : {MaxFrames}, samples : {Samples}, geometry : {0},
               time_steps : {{250}}]]

ContentNext ==
    \/ Spawn
    \/ RecvReady
    \/ BuildPipeline
    \/ LoopTop
    \/ Pull
    \/ Bus
    \/ RConnect
    \/ RDmabufSetup
    \/ RCreateSurfaces
    \/ RLoopCheck
    \/ RDispatchReturn
    \/ Configure
    \/ FrameCallback
    \/ ReleasedPool
    \/ ReleasedImported

SpecContent == Start(ContentScenarios) /\ [][ContentNext]_vars

(***************************************************************************)
(* Plane counts: a video with metrics under WAYBG_DMABUF=auto whose dmabuf *)
(* samples all report an invalid plane count, and one whose dmabuf samples *)
(* have one and two planes.                                                *)
(***************************************************************************)
PlaneScenarios ==
    [args : [input : {VideoFile}, loop_playback : {FALSE}, metrics : {TRUE},
             output : {None}, dmabuf_mode : {"Auto"}, scale_mode : {"Fit"}],
     compositor : [outputs : {<<Some("DP-1")>>}, dmabuf : {FALSE}, viewporter : {FALSE}],
     dma_heap : {FALSE},
     limits : [frames : {MaxFrames},
               samples : {MalformedSamples, {DmabufSample, DmabufNV12Sample}},
               geometry : {0}, time_steps : {{250}}]]

PlaneNext ==
    \/ Spawn
    \/ RecvReady
    \/ RecvDisconnected
    \/ Join
    \/ BuildPipeline
    \/ LoopTop
    \/ Pull
    \/ Bus
    \/ ErrorJoin
    \/ Shutdown
    \/ RConnect
    \/ RDmabufSetup
    \/ RCreateSurfaces
    \/ RLoopCheck
    \/ RDispatchReturn
    \/ OtherEvent

SpecPlanes == Start(PlaneScenarios) /\ [][PlaneNext]_vars

(***************************************************************************)
(* The descriptors and the wl_buffer objects of the direct import.         *)
(*                                                                         *)
(* The imported frame in the mailbox keeps descriptor 0, the decoder's     *)
(* (dmabuf_memory_get_fd), and one descriptor per plane, 1..n, which       *)
(* collect_dmabuf_planes duplicated from it.  `call` holds the frame, the  *)
(* descriptors open in the process, the Vec<OwnedFd> being filled, and     *)
(* what was done so far: the duplications, the descriptors handed to       *)
(* params.add, the close calls, the wl_buffers created (numbered from 1),  *)
(* those in imported_dmabuf_frames and the destroy requests.               *)
(***************************************************************************)
\* the descriptors a DmabufVideoFrame of n planes holds open: the decoder's and the
\* planes' own
DescriptorsOf(frame) == 0..frame.n_planes

\* F_DUPFD_CLOEXEC with argument 0: the lowest descriptor number that is not open
LowestFree(open) ==
    CHOOSE fd \in 0..Cardinality(open) :
        fd \notin open /\ \A g \in 0..(fd - 1) : g \in open

\* a duplication that hands back the descriptor it was given
dup_fd_cloexec_no_copy(fd, open) == fd

dup_fd_cloexec(fd, open) == LowestFree(open)

\* a Vec<OwnedFd> goes out of scope: each descriptor is closed, in order
RECURSIVE drop_fds(_, _)
drop_fds(c, fds) ==
    IF fds = <<>> THEN c
    ELSE drop_fds([c EXCEPT !.closes = Append(@, [fd |-> Head(fds),
                                                  was_open |-> Head(fds) \in c.open]),
                            !.open = @ \ {Head(fds)}],
                  Tail(fds))

ImportedFrames ==
    {sample_to_frame_payload(s, TRUE, 1, TRUE).payload :
        s \in {DmabufSample, DmabufNV12Sample}}

ImportCalls ==
    {[fn |-> "create_dmabuf_imported_buffer", frame |-> f, pc |-> "idle",
      open |-> DescriptorsOf(f), imported_fds |-> <<>>, dups |-> <<>>, sent |-> <<>>,
      closes |-> <<>>, imports |-> 0, created |-> 0, in_flight |-> <<>>,
      destroys |-> <<>>, res |-> Ok] : f \in ImportedFrames}

\* draw_surface_dmabuf_imported below the in-flight cap calls
\* create_dmabuf_imported_buffer: the planes check, create_params
ImportBegin ==
    /\ call.fn = "create_dmabuf_imported_buffer"
    /\ call.pc = "idle"
    /\ call.imports < MaxImports
    /\ ~ImportCapReached(call.in_flight)
    /\ call' = IF call.frame.n_planes = 0
               THEN [call EXCEPT !.res = Err(<<"dmabuf frame has no planes">>),
                                 !.imports = @ + 1]
               ELSE [call EXCEPT !.pc = "dup", !.imported_fds = <<>>]
    /\ UNCHANGED <<lock_vars, env_vars, controller_vars, stored, loaded, main_vars,
                   frame_store, stop, ready, render_vars>>

\* one iteration of `for plane in &frame.planes`: the duplicate is pushed, or the
\* error returns from the function and imported_fds is dropped
DupPlane ==
    /\ call.fn = "create_dmabuf_imported_buffer"
    /\ call.pc = "dup"
    /\ Len(call.imported_fds) < call.frame.n_planes
    /\ \E ok \in BOOLEAN :
          LET plane == Len(call.imported_fds) + 1
              fd == dup_fd_cloexec(plane, call.open)
          IN  call' =
                 IF ok
                 THEN [call EXCEPT !.imported_fds = Append(@, fd),
                                   !.open = @ \cup {fd},
                                   !.dups = Append(@, [fd |-> fd, plane |-> plane,
                                                       import |-> call.imports + 1])]
                 ELSE [drop_fds(call, call.imported_fds)
                          EXCEPT !.pc = "idle", !.imported_fds = <<>>,
                                 !.imports = @ + 1,
                                 !.res = Err(<<"failed to duplicate plane fd">>)]
    /\ UNCHANGED <<lock_vars, env_vars, controller_vars, stored, loaded, main_vars,
                   frame_store, stop, ready, render_vars>>

\* params.add for every plane, create_immed, the return (imported_fds is dropped),
\* and the push of the ImportedDmabufFrame in draw_surface_dmabuf_imported
CreateImmed ==
    /\ call.fn = "create_dmabuf_imported_buffer"
    /\ call.pc = "dup"
    /\ Len(call.imported_fds) = call.frame.n_planes
    /\ LET added == [k \in 1..Len(call.imported_fds) |->
                        [fd |-> call.imported_fds[k], plane |-> k,
                         import |-> call.imports + 1]]
           wl_buffer == call.created + 1
       IN  call' = [drop_fds([call EXCEPT !.sent = @ \o added], call.imported_fds)
                       EXCEPT !.pc = "idle", !.imported_fds = <<>>,
                              !.imports = @ + 1, !.created = wl_buffer,
                              !.in_flight = Append(@, wl_buffer), !.res = Ok]
    /\ UNCHANGED <<lock_vars, env_vars, controller_vars, stored, loaded, main_vars,
                   frame_store, stop, ready, render_vars>>

\* DmabufHandler::released finds the wl_buffer among the imports: swap_remove
\* drops the ImportedDmabufFrame, whose Drop destroys the wl_buffer
ImportReleased ==
    /\ call.fn = "create_dmabuf_imported_buffer"
    /\ call.pc = "idle"
    /\ \E k \in DOMAIN call.in_flight :
          call' = [call EXCEPT !.in_flight = SwapRemove(@, k),
                               !.destroys = Append(@, call.in_flight[k])]
    /\ UNCHANGED <<lock_vars, env_vars, controller_vars, stored, loaded, main_vars,
                   frame_store, stop, ready, render_vars>>

\* imported_dmabuf_frames.clear() of the geometry handlers and of disable_dmabuf:
\* every ImportedDmabufFrame is dropped
ImportsCleared ==
    /\ call.fn = "create_dmabuf_imported_buffer"
    /\ call.pc = "idle"
    /\ call.in_flight # <<>>
    /\ call' = [call EXCEPT !.in_flight = <<>>, !.destroys = @ \o call.in_flight]
    /\ UNCHANGED <<lock_vars, env_vars, controller_vars, stored, loaded, main_vars,
                   frame_store, stop, ready, render_vars>>

DescriptorsNext ==
    \/ ImportBegin
    \/ DupPlane
    \/ CreateImmed
    \/ ImportReleased
    \/ ImportsCleared

SpecDescriptors ==
    StartWith(RecorderScenarios, {NoRecorder}, ImportCalls) /\ [][DescriptorsNext]_vars

(***************************************************************************)
(* The properties.                                                         *)
(***************************************************************************)
\* C1: the frame mailbox is a single slot in which the latest write wins.  After
\* every step the slot holds the payload stored last (and is empty exactly while
\* nothing was stored), a redraw reads the payload stored last, and the payloads
\* the redraws read never go back to an older one.
C1_MailboxLatestWins ==
    [][/\ frame_store'.seq = latest'
       /\ (frame_store'.kind = "None") = (latest' = 0)
       /\ observed' >= observed
       /\ (observed' # observed => observed' = latest)]_vars

\* a redraw has read the second payload, which replaced the first in the slot
C1_SecondPayloadObserved == latest = 2 /\ frame_store.seq = 2 /\ observed = 2

\* C2: a surface's zero-copy pool holds at most DMABUF_POOL_SIZE (2) buffers in
\* every state, and a redraw that finds every buffer of the pool still held by the
\* compositor allocates nothing: it attaches no buffer, requests a frame callback
\* and commits, and the pool it leaves has 2 entries, none of them released.
C2_PoolBoundedAndDeferred ==
    /\ \A i \in DOMAIN surfaces : Len(surfaces[i].dmabuf_buffers) <= DMABUF_POOL_SIZE
    /\ last.req.path = "pool_deferred" =>
          /\ last.ok
          /\ last.req.attach = "none"
          /\ last.req.frame_cb
          /\ last.req.commit
          /\ \E i \in DOMAIN surfaces :
                /\ Len(surfaces[i].dmabuf_buffers) = DMABUF_POOL_SIZE
                /\ \A k \in DOMAIN surfaces[i].dmabuf_buffers :
                      ~surfaces[i].dmabuf_buffers[k].released

\* a redraw has just been deferred because both buffers of the pool are in use
C2_RedrawDeferred ==
    /\ last.req.path = "pool_deferred"
    /\ \E i \in DOMAIN surfaces :
          /\ Len(surfaces[i].dmabuf_buffers) = DMABUF_POOL_SIZE
          /\ \A k \in DOMAIN surfaces[i].dmabuf_buffers :
                ~surfaces[i].dmabuf_buffers[k].released

\* C3 (as stated): a surface never has more than MAX_IMPORTED_DMABUF_IN_FLIGHT (3)
\* imported buffers in flight, a redraw at the cap only requests a frame callback
\* and commits, and submission resumes only after a release event has removed an
\* entry: a handler that finds the list at the cap and attaches an imported
\* buffer, or leaves the list below the cap, is the release handler.
C3_ResumesOnlyAfterRelease ==
    [][\A i \in DOMAIN surfaces :
          (/\ Len(surfaces[i].imported_dmabuf_frames) = MAX_IMPORTED_DMABUF_IN_FLIGHT
           /\ dispatched' = dispatched + 1
           /\ \/ last'.req.attach = "import"
              \/ Len(surfaces'[i].imported_dmabuf_frames) < MAX_IMPORTED_DMABUF_IN_FLIGHT)
          => last'.h = "released"]_vars

\* C3 (amended): a surface never has more than 3 imported buffers in flight; a
\* redraw that finds the list at the cap creates and attaches nothing, requests a
\* frame callback and commits, and leaves every list as it is; and a handler that
\* finds the list at the cap and attaches an imported buffer, or leaves the list
\* below the cap, is the release handler, a size, scale-factor or transform
\* notification (which clear the list before they redraw), or the fallback that
\* disables zero-copy (which clears every list).
C3_ImportCap ==
    [][/\ \A i \in DOMAIN surfaces' :
             Len(surfaces'[i].imported_dmabuf_frames) <= MAX_IMPORTED_DMABUF_IN_FLIGHT
       /\ last'.req.path = "import_deferred" =>
             /\ last'.ok
             /\ last'.req.attach = "none"
             /\ last'.req.frame_cb
             /\ last'.req.commit
       /\ (dispatched' = dispatched + 1 /\ last'.req.path = "import_deferred") =>
             /\ \A i \in DOMAIN surfaces :
                   surfaces'[i].imported_dmabuf_frames
                      = surfaces[i].imported_dmabuf_frames
             /\ \E i \in DOMAIN surfaces :
                   Len(surfaces[i].imported_dmabuf_frames) = MAX_IMPORTED_DMABUF_IN_FLIGHT
       /\ \A i \in DOMAIN surfaces :
             (/\ Len(surfaces[i].imported_dmabuf_frames) = MAX_IMPORTED_DMABUF_IN_FLIGHT
              /\ dispatched' = dispatched + 1
              /\ \/ last'.req.attach = "import"
                 \/ Len(surfaces'[i].imported_dmabuf_frames)
                       < MAX_IMPORTED_DMABUF_IN_FLIGHT)
             => \/ last'.h \in {"released", "configure", "scale_factor_changed",
                                "transform_changed", "failed"}
                \/ last'.fell_back]_vars

\* a redraw has just been deferred with 3 imported buffers in flight
C3_RedrawDeferredAtCap ==
    /\ last.req.path = "import_deferred"
    /\ \E i \in DOMAIN surfaces :
          Len(surfaces[i].imported_dmabuf_frames) = MAX_IMPORTED_DMABUF_IN_FLIGHT

\* C4: with WAYBG_DMABUF=auto a failure of the zero-copy path disables zero-copy
\* for all surfaces.  The step that disables it is a fallback and leaves every
\* surface's pool and list of imported buffers empty; while it is disabled they
\* stay empty and every redraw uses the shared-memory path; it is never enabled
\* again; and the failure is not reported: a fallback whose shared-memory redraw
\* succeeds records no fatal error and sets neither exit nor the stop flag, and no
\* recorded error and no result of play_video carries a zero-copy failure.
C4_AutoFallback ==
    [][~dmabuf_required' =>
          /\ (dmabuf_enabled /\ ~dmabuf_enabled') => last'.fell_back
          /\ ~dmabuf_enabled' =>
                \A i \in DOMAIN surfaces' :
                   /\ surfaces'[i].dmabuf_buffers = <<>>
                   /\ surfaces'[i].imported_dmabuf_frames = <<>>
          /\ (~dmabuf_enabled' /\ dispatched' = dispatched + 1) =>
                /\ last'.req.path \in {"none", "shm"}
                /\ last'.req.attach \in {"none", "shm"}
          /\ (~dmabuf_enabled /\ rpc # "dmabuf_setup") => ~dmabuf_enabled'
          /\ (last'.fell_back /\ last'.ok /\ dispatched' = dispatched + 1) =>
                /\ fatal_error' = fatal_error
                /\ recorded' = recorded
                /\ exit' = exit
                /\ stop' = stop
          /\ recorded'.some =>
                \A k \in DOMAIN recorded'.v : recorded'.v[k] \notin ZeroCopyFailures
          /\ (result'.some /\ ~result'.v.ok) =>
                \A k \in DOMAIN result'.v.msg : result'.v.msg[k] \notin ZeroCopyFailures
      ]_vars

\* after a fallback on two surfaces, a later frame callback has drawn through
\* shared memory
C4_ShmAfterFallback ==
    /\ args.dmabuf_mode = "Auto"
    /\ params_created
    /\ ~dmabuf_enabled
    /\ Len(surfaces) = 2
    /\ last.h = "frame"
    /\ ~last.fell_back
    /\ last.req.attach = "shm"

\* C5: with WAYBG_DMABUF=on, dmabuf_enabled stays true for the whole life of the
\* renderer and no shared-memory buffer is ever attached; a handler whose
\* zero-copy redraw fails, and the params `failed` event, record a fatal error
\* and set exit and the stop flag; and once such an error was recorded play_video
\* returns an error, never success.
C5_RequiredIsFatal ==
    [][dmabuf_required' =>
          /\ dmabuf_enabled'
          /\ ~shm_attached'
          /\ (dispatched' = dispatched + 1 /\ ~last'.ok) =>
                /\ fatal_error'.some
                /\ recorded' = fatal_error'
                /\ \E k \in DOMAIN recorded'.v : recorded'.v[k] \in ZeroCopyFailures
                /\ exit'
                /\ stop'
          /\ (recorded'.some /\ result'.some) => ~result'.v.ok
      ]_vars

\* a required zero-copy draw failed and play_video returned the recorded error
C5_RequiredFailureReturned ==
    /\ dmabuf_required
    /\ recorded.some
    /\ result.some
    /\ ~result.v.ok
    /\ result.v.msg = recorded.v

\* C6: whenever play_video_layer_shell has returned after spawning the render
\* thread, the stop flag is set and the render thread has been joined.
C6_StopSetAndJoinedOnReturn == mpc = "done" => (stop /\ joined)

\* C7: a handler that records a fatal error sets exit and the stop flag in the
\* same step; the error a handler recorded stays the recorded one until the render
\* loop returns it, which it does at the end of the dispatch in progress, without
\* starting another; and once an error was recorded play_video returns an error.
C7_FatalErrorReturned ==
    [][/\ (dispatched' = dispatched + 1 /\ ~last'.ok) =>
             /\ fatal_error'.some
             /\ exit'
             /\ stop'
       /\ fatal_error.some =>
             /\ rpc = "dispatch"
             /\ \/ fatal_error' = fatal_error /\ rpc' = "dispatch"
                \/ rresult' = Some(Err(fatal_error.v)) /\ rpc' = "done"
       /\ (recorded'.some /\ result'.some) => ~result'.v.ok
      ]_vars

\* C8: when play_video has returned a fatal runtime error of a video played with
\* metrics requested (the pipeline's error message, or the fatal error the render
\* thread recorded), the metrics file holds a snapshot whose notes are that
\* error's message.
C8_LastSnapshotCarriesFailure ==
    (/\ mpc = "done"
     /\ ~is_blank_source(args.input)
     /\ args.metrics
     /\ result.some
     /\ ~result.v.ok
     /\ \/ result.v.msg = PipelineError
        \/ recorded.some /\ result.v.msg = recorded.v)
    => (metrics_file.exists /\ metrics_file.notes = result.v.msg)

\* C9: when the renderer fails because the requested output name is not among
\* the advertised outputs, the error play_video returns is the message that lists
\* the names found, or '<none named>' when no output has a name.
C9_NotFoundMessageListsNames ==
    LET not_found == OutputNotFound(Trim(args.output.v), compositor.outputs)
    IN  (mpc = "done" /\ args.output.some /\ rresult = Some(Err(not_found)))
        => result = Some(Err(not_found))

\* C10: with WAYBG_DMABUF=on and a compositor without linux-dmabuf, play_video
\* fails with no layer surface created, and the error it returns names the missing
\* protocol, zwp_linux_dmabuf_v1.
C10_MissingProtocolNamed ==
    (mpc = "done" /\ args.dmabuf_mode = "On" /\ ~compositor.dmabuf
     /\ rresult = Some(Err(DmabufProtocolMissing)))
    => /\ surfaces = <<>>
       /\ result.some
       /\ ~result.v.ok
       /\ \E k \in DOMAIN result.v.msg : result.v.msg[k] = "zwp_linux_dmabuf_v1"

\* C11: the pipeline is built only after the readiness message was received, and
\* the message is sent only once the render thread has created one layer surface
\* per target output and entered its loop; the readiness channel carries at most
\* one message (it goes from empty to holding one message to taken, never back);
\* and when the render thread returns during startup, without having sent, no
\* pipeline is ever built and play_video returns an error.
C11_StartupHandshake ==
    [][/\ (pipeline = "none" /\ pipeline' # "none") => ready = "taken"
       /\ ready' # ready =>
             \/ /\ ready = "empty"
                /\ ready' = "ok"
                /\ rpc' = "loop"
                /\ select_target_outputs(compositor.outputs, args.output).ok
                /\ Len(surfaces')
                     = Len(select_target_outputs(compositor.outputs, args.output).targets)
                /\ Len(surfaces') > 0
             \/ ready = "ok" /\ ready' = "taken"
       /\ (rresult'.some /\ ready' = "empty") =>
             /\ pipeline' = "none"
             /\ result'.some => ~result'.v.ok
      ]_vars

\* the pipeline plays after the handshake with a render thread that created a surface
C11_PipelineAfterHandshake ==
    /\ pipeline = "playing"
    /\ ready = "taken"
    /\ Len(surfaces) = 1
    /\ rpc \in {"loop", "dispatch"}

\* C12: once the stop flag is set, the render thread's loop head starts no
\* dispatch (the dispatch it may have started just before is the only further
\* one), the decode loop's head starts no iteration, and outside the iteration in
\* progress no sample is pulled, written to the mailbox or recorded.
C12_StopBoundsBothLoops ==
    [][/\ (stop /\ rpc = "loop") => rpc' \in {"loop", "done"}
       /\ (stop /\ mpc = "loop") => mpc' \in {"loop", "shutdown"}
       /\ (stop /\ mpc # "pull") =>
             /\ mpc' # "pull"
             /\ decoded' = decoded
             /\ frame_store' = frame_store
             /\ latest' = latest
             /\ recorder'.sample_count = recorder.sample_count
             /\ recorder'.previous = recorder.previous
      ]_vars

\* the stop flag was set during a dispatch and the decode loop, after a sample,
\* has seen it at its head
C12_BothLoopsStopping ==
    /\ stop
    /\ rpc = "dispatch"
    /\ mpc = "shutdown"
    /\ decoded >= 1

\* C13: with looping disabled, once the calling thread has reached its final join
\* (after end-of-stream and the pipeline's shutdown, or after a blank source's idle
\* period), play_video eventually returns with the stop flag set and the render
\* thread joined.
C13_EventuallyReturns ==
    (~args.loop_playback /\ mpc = "join") ~> (mpc = "done" /\ stop /\ joined)

\* C14 (as stated): the closed notification sets exit and the stop flag, and the
\* render loop then starts no new dispatch and returns success: a dispatch whose
\* last event was the closed notification ends with the loop going back to its
\* head, and a loop that leaves its head with exit set returns Ok.
C14_ClosedReturnsSuccess ==
    [][/\ (dispatched' = dispatched + 1 /\ last'.h = "closed") => (exit' /\ stop')
       /\ (rpc = "dispatch" /\ last.h = "closed" /\ rpc' # "dispatch") => rpc' = "loop"
       /\ (exit /\ rpc = "loop" /\ rpc' # "loop") =>
             (rpc' = "done" /\ rresult' = Some(Ok))
      ]_vars

\* C14 (amended): the closed notification sets exit and the stop flag and records
\* no error; a dispatch that ends with exit set is the last one: the loop returns
\* the fatal error a handler of that dispatch recorded, if any, and otherwise goes
\* to its head and returns success from there; and the decode loop leaves at its
\* next look at the stop flag.
C14_ClosedStopsEverything ==
    [][/\ (dispatched' = dispatched + 1 /\ last'.h = "closed") =>
             (exit' /\ stop' /\ fatal_error' = fatal_error)
       /\ (exit /\ rpc = "dispatch" /\ rpc' # "dispatch") =>
             IF fatal_error.some
             THEN rpc' = "done" /\ rresult' = Some(Err(fatal_error.v))
             ELSE rpc' = "loop"
       /\ (exit /\ rpc = "loop" /\ rpc' # "loop") =>
             (rpc' = "done" /\ rresult' = Some(Ok))
       /\ (stop /\ mpc = "loop" /\ mpc' # "loop") => mpc' = "shutdown"
      ]_vars

\* a surface was closed during a video: the render thread returned success and so
\* did play_video
C14_ClosedEndedPlayback ==
    /\ ~is_blank_source(args.input)
    /\ exit
    /\ rresult = Some(Ok)
    /\ mpc = "done"
    /\ joined
    /\ result = Some(Ok)

\* C15: the mailbox mutex is held by the decode thread only while it replaces the
\* slot and by the render thread only while it clones it: never while the decode
\* thread pulls a sample, records or writes metrics, polls the bus or sleeps, and
\* never while the render thread waits in a dispatch or draws.  Whoever holds the
\* mutex can release it by its own next step without waiting for anything, so after
\* the startup handshake a thread that wants the mailbox is never blocked on the other.
C15_MailboxLockScope ==
    /\ frame_store_lock \in {"free", "decode", "render"}
    /\ frame_store_lock = "decode" =>
          /\ mpc = "replace_slot"
          /\ ENABLED ReplaceSlot
    /\ frame_store_lock = "render" =>
          /\ draw_call.stage = "locked"
          /\ ENABLED CloneFrame
    /\ mpc \in {"pull", "record", "bus", "loop", "shutdown", "join", "done"} =>
          frame_store_lock # "decode"
    /\ draw_call.stage \in {"idle", "cloned"} => frame_store_lock # "render"
    /\ (ready = "taken" /\ mpc = "lock_slot" /\ frame_store_lock # "free") =>
          ENABLED CloneFrame
    /\ (ready = "taken" /\ draw_call.stage = "idle" /\ frame_store_lock # "free") =>
          ENABLED ReplaceSlot

\* the decode thread waits for the mutex while the render thread clones frame 1
C15_DecodeWaitsForClone ==
    /\ mpc = "lock_slot"
    /\ frame_store_lock = "render"
    /\ draw_call.stage = "locked"
    /\ frame_store.seq = 1
    /\ decoded = 2

\* C16: a drain of the bus that saw an error message sets the stop flag and leaves
\* the loop for the error exit, with no seek and no further iteration, whether or
\* not the same drain saw end-of-stream and whether or not looping is enabled; the
\* error exit joins the render thread and returns exactly that pipeline error.
C16_PipelineErrorIsFatal ==
    [][/\ (mpc = "bus" /\ mpc' # "bus" /\ drained'.playback_error) =>
             /\ stop'
             /\ mpc' = "error_join"
             /\ pipeline' = "null"
             /\ result' = result
       /\ (mpc = "error_join" /\ mpc' # "error_join") =>
             /\ drained.playback_error
             /\ mpc' = "done"
             /\ joined'
             /\ result' = Some(Err(PipelineError))
       /\ (drained.playback_error /\ mpc \in {"error_join", "done"}) =>
             /\ drained' = drained
             /\ mpc' \in {"error_join", "done"}
             /\ decoded' = decoded
             /\ pipeline' = pipeline ]_vars

\* looping playback returned the pipeline error of a drain that also saw end-of-stream
C16_ErrorBeatsEos ==
    /\ args.loop_playback
    /\ drained.reached_eos
    /\ drained.playback_error
    /\ mpc = "done"
    /\ result = Some(Err(PipelineError))

\* C17 as stated: a drain that saw end-of-stream and no error, with looping enabled,
\* always continues the loop with the stop flag untouched and nothing returned; with
\* looping disabled it sets the stop flag and ends the loop, and whenever play_video
\* then returns while the renderer has exited cleanly, it returns success.
C17_EosLoopsOrStops ==
    [][/\ (mpc = "bus" /\ mpc' # "bus" /\ args.loop_playback
             /\ drained'.reached_eos /\ ~drained'.playback_error) =>
             /\ mpc' = "loop"
             /\ stop' = stop
             /\ result' = result
       /\ (mpc = "bus" /\ mpc' # "bus" /\ ~args.loop_playback
             /\ drained'.reached_eos /\ ~drained'.playback_error) =>
             /\ stop'
             /\ mpc' = "shutdown"
       /\ (~args.loop_playback /\ drained.reached_eos /\ ~drained.playback_error
             /\ mpc # "done" /\ mpc' = "done" /\ rresult = Some(Ok)) =>
             result' = Some(Ok) ]_vars

\* C17: a drain that saw end-of-stream and no error, with looping enabled, seeks to
\* the start: when the seek succeeds the loop continues with the stop flag untouched
\* and nothing returned, however many end-of-streams came before, and when the seek
\* fails play_video returns the seek error at once.  With looping disabled the drain
\* sets the stop flag and ends the loop; play_video then returns the renderer's own
\* result once the pipeline has reached Null and the render thread is joined, and the
\* error of the state change when the pipeline does not reach Null.
C17_EosSeeksOrStops ==
    [][/\ (mpc = "bus" /\ mpc' # "bus" /\ args.loop_playback
             /\ drained'.reached_eos /\ ~drained'.playback_error) =>
             /\ stop' = stop
             /\ pipeline' = pipeline
             /\ \/ mpc' = "loop" /\ result' = result
                \/ /\ mpc' = "done"
                   /\ result' = Some(Err(<<"failed to seek to start for looped playback">>))
       /\ (mpc = "bus" /\ mpc' # "bus" /\ ~args.loop_playback
             /\ drained'.reached_eos /\ ~drained'.playback_error) =>
             /\ stop'
             /\ mpc' = "shutdown"
             /\ result' = result
       /\ (~args.loop_playback /\ drained.reached_eos /\ ~drained.playback_error
             /\ mpc # "done" /\ mpc' = "done") =>
             \/ /\ mpc = "join"
                /\ pipeline = "null"
                /\ joined'
                /\ result' = Some(join_renderer_thread(rresult.v))
             \/ /\ mpc = "shutdown"
                /\ pipeline' # "null"
                /\ result' = Some(Err(<<"failed to set pipeline to Null">>)) ]_vars

\* looping playback has gone round after a second end-of-stream, still not stopped
C17_LoopedPastEos ==
    /\ args.loop_playback
    /\ drained.reached_eos
    /\ ~drained.playback_error
    /\ mpc = "loop"
    /\ decoded = MaxFrames
    /\ ~stop
    /\ result = None

\* the history after one more sample is the old history with the sample appended,
\* less its oldest sample when that makes it longer than the capacity
OneSampleAdded(before, after) ==
    LET shift == Len(before) + 1 - Len(after)
    IN  /\ Len(after) = Min(Len(before) + 1, METRICS_HISTORY_CAPACITY)
        /\ \A j \in 1..(Len(after) - 1) : after[j] = before[j + shift]

\* C18 as stated: the history holds exactly min(sample_count, 900) samples; the
\* first frame a recorder is given adds no sample, and every later frame adds exactly
\* one, at the back, dropping the oldest sample of a full history, and counts one
\* more in sample_count, which has no cap.
C18_EveryLaterFrameAddsOne ==
    /\ [](Len(recorder.samples) = Min(recorder.sample_count, METRICS_HISTORY_CAPACITY))
    /\ [][decoded' = decoded + 1 =>
             IF recorder.previous
             THEN /\ recorder'.sample_count = recorder.sample_count + 1
                  /\ OneSampleAdded(recorder.samples, recorder'.samples)
             ELSE /\ recorder'.sample_count = recorder.sample_count
                  /\ recorder'.samples = recorder.samples ]_vars

\* C18: the history holds exactly min(sample_count, 900) samples; the first frame a
\* recorder is given adds no sample, nor does a frame at the same instant as the
\* frame before it; every other frame adds exactly one, at the back, dropping the
\* oldest sample of a full history, and counts one more in sample_count, which has
\* no cap.
C18_HistoryHoldsMostRecent ==
    /\ [](Len(recorder.samples) = Min(recorder.sample_count, METRICS_HISTORY_CAPACITY))
    /\ [][decoded' = decoded + 1 =>
             IF recorder.previous /\ clock' > recorder.previous_frame_instant
             THEN /\ recorder'.sample_count = recorder.sample_count + 1
                  /\ OneSampleAdded(recorder.samples, recorder'.samples)
                  /\ recorder'.samples[Len(recorder'.samples)] = recorder'.last_fps
             ELSE /\ recorder'.sample_count = recorder.sample_count
                  /\ recorder'.samples = recorder.samples ]_vars

\* a full history has dropped its two oldest samples for two new ones
C18_OldestEvicted ==
    /\ decoded = 2
    /\ recorder.sample_count = METRICS_HISTORY_CAPACITY + 2
    /\ Len(recorder.samples) = METRICS_HISTORY_CAPACITY
    /\ recorder.samples[1] = EarlierRate(3)
    /\ recorder.samples[METRICS_HISTORY_CAPACITY] = 4

\* C19: a loop iteration that ends its pull at least METRICS_FLUSH_INTERVAL after the
\* last flush writes a snapshot, whether or not it pulled a frame; an iteration
\* writes a snapshot only when that long has passed since the last flush; the forced
\* flushes of the normal exit and of the error exit always write.
C19_FlushEveryDueIteration ==
    [][/\ (mpc = "pull" /\ mpc' = "bus" /\ recorder.exists /\ clock' > clock
             /\ clock' - recorder.last_flush_instant >= METRICS_FLUSH_INTERVAL) =>
             metrics_file'.writes = metrics_file.writes + 1
       /\ (mpc = "pull" /\ metrics_file'.writes # metrics_file.writes) =>
             clock' - recorder.last_flush_instant >= METRICS_FLUSH_INTERVAL
       /\ (recorder.exists
             /\ \/ mpc = "shutdown" /\ mpc' = "join"
                \/ mpc = "error_join" /\ mpc' = "done") =>
             metrics_file'.writes = metrics_file.writes + 1 ]_vars

\* C20: once two frames have been recorded 250 ms apart (one sample, of 4 frames per
\* second), the metrics file has been written twice; and each write that follows a
\* frame carries a later updated_unix_ms than the write before it.
C20_TwoFramesTwoWrites ==
    /\ [](( /\ recorder.exists
            /\ mpc = "bus"
            /\ decoded = 2
            /\ recorder.sample_count = 1
            /\ recorder.last_fps = 1000 \div 250 ) => metrics_file.writes = 2)
    /\ [][(mpc = "pull" /\ metrics_file.writes > 0
             /\ metrics_file'.writes # metrics_file.writes) =>
             metrics_file'.updated_unix_ms > metrics_file.updated_unix_ms ]_vars

\* the sources of SourceInputs that are, once trimmed and whatever their case,
\* "blank", "blank://" or "none"
BlankSpellings ==
    {BLANK_VIDEO_URI,
     <<"b", "l", "a", "n", "k">>,
     <<"n", "o", "n", "e">>,
     <<" ", "B", "l", "a", "n", "K", "\n">>,
     <<"\t", "N", "O", "N", "E", " ">>,
     <<"B", "L", "A", "N", "K", ":", "/", "/", " ">>}

\* a blank source never has a pipeline, a mailbox payload or a recorder, and writes
\* the metrics file at most once; any other source never enters the blank path
BlankPathOnly ==
    /\ args.input \in BlankSpellings =>
          /\ pipeline = "none"
          /\ frame_store = NoFrame
          /\ latest = 0
          /\ decoded = 0
          /\ recorder = NoRecorder
          /\ metrics_file.writes <= (IF args.metrics THEN 1 ELSE 0)
          /\ metrics_file.exists =>
                /\ metrics_file.sample_count = 0
                /\ metrics_file.recent_fps = <<>>
                /\ metrics_file.notes # <<>>
    /\ args.input \notin BlankSpellings =>
          /\ mpc \notin {"blank_loop", "blank_sleep"}
          /\ metrics_file.notes # <<"blank source does not emit FPS samples">>

C22_ReaderSeesWholeFlush ==
    loaded.result \in {"none", "not_found", "complete"}

\* the values the documentation of each variable lists, as written there
DocumentedValues(fn) ==
    CASE fn = "parse_backend" -> {<<"a", "u", "t", "o">>, <<"g", "s", "t", "r", "e", "a", "m", "e", "r">>, <<"l", "a", "y", "e", "r", "-", "s", "h", "e", "l", "l">>}
      [] fn = "parse_scale_mode" ->
            {<<"f", "i", "t">>, <<"f", "i", "l", "l">>, <<"s", "t", "r", "e", "t", "c", "h">>, <<"c", "o", "n", "t", "a", "i", "n">>, <<"c", "o", "v", "e", "r">>}
      [] fn = "parse_dmabuf_mode" ->
            {<<"a", "u", "t", "o">>, <<"o", "n">>, <<"o", "f", "f">>, <<"t", "r", "u", "e">>, <<"1">>, <<"y", "e", "s">>, <<"f", "a", "l", "s", "e">>, <<"0">>, <<"n", "o">>}

\* the variable each parser reads
VariableOf(fn) ==
    CASE fn = "parse_backend" -> "WAYBG_BACKEND"
      [] fn = "parse_scale_mode" -> "WAYBG_SCALE_MODE"
      [] fn = "parse_dmabuf_mode" -> "WAYBG_DMABUF"

\* the spellings among ModeInputs that select each value
SpellingsOf(fn, mode) ==
    CASE fn = "parse_backend" /\ mode = "Auto" -> {<<>>, <<"a", "u", "t", "o">>, <<"A", "U", "T", "O">>}
      [] fn = "parse_backend" /\ mode = "GstreamerWindow" -> {<<"g", "s", "t", "r", "e", "a", "m", "e", "r">>, <<"G", "S", "t", "r", "e", "a", "m", "e", "r">>}
      [] fn = "parse_backend" /\ mode = "LayerShell" -> {<<"l", "a", "y", "e", "r", "-", "s", "h", "e", "l", "l">>}
      [] fn = "parse_scale_mode" /\ mode = "Fill" ->
            {<<>>, <<"f", "i", "l", "l">>, <<"F", "I", "L", "L">>, <<"c", "o", "v", "e", "r">>, <<"C", "o", "v", "e", "r">>}
      [] fn = "parse_scale_mode" /\ mode = "Fit" -> {<<"f", "i", "t">>, <<"F", "i", "t">>, <<"c", "o", "n", "t", "a", "i", "n">>}
      [] fn = "parse_scale_mode" /\ mode = "Stretch" -> {<<"s", "t", "r", "e", "t", "c", "h">>}
      [] fn = "parse_dmabuf_mode" /\ mode = "Auto" -> {<<>>, <<"a", "u", "t", "o">>, <<"A", "U", "T", "O">>}
      [] fn = "parse_dmabuf_mode" /\ mode = "On" ->
            {<<"o", "n">>, <<"O", "N">>, <<"t", "r", "u", "e">>, <<"1">>, <<"y", "e", "s">>, <<"Y", "e", "s">>}
      [] fn = "parse_dmabuf_mode" /\ mode = "Off" ->
            {<<"o", "f", "f">>, <<"f", "a", "l", "s", "e">>, <<"0">>, <<"n", "o">>}
      [] OTHER -> {}

ParserNames == {"parse_backend", "parse_scale_mode", "parse_dmabuf_mode"}

ModesOf(fn) ==
    CASE fn = "parse_backend" -> {"Auto", "GstreamerWindow", "LayerShell"}
      [] fn = "parse_scale_mode" -> {"Fill", "Fit", "Stretch"}
      [] fn = "parse_dmabuf_mode" -> {"Auto", "On", "Off"}

\* the value a parser returns for a spelling of mode; the backend auto is resolved
\* by the session
ResolvedMode(fn, mode, niri) ==
    IF fn = "parse_backend" /\ mode = "Auto"
    THEN IF niri THEN "LayerShell" ELSE "GstreamerWindow"
    ELSE mode

\* every value that is not accepted is rejected with an error naming the variable
RejectionNamesVariable ==
    call.fn \in ParserNames /\ call.returned /\ ~call.out.ok
        => call.out.msg.variable = VariableOf(call.fn)

\* C23 as stated: each parser accepts exactly the documented literal values and
\* rejects every other string with an error that names its WAYBG_* variable
C23_ParsersAcceptExactlyLiterals ==
    /\ call.fn \in ParserNames /\ call.returned
          => (call.out.ok <=> call.value \in DocumentedValues(call.fn))
    /\ RejectionNamesVariable

\* C23: each parser accepts, in any letter case, exactly the documented values and
\* the empty string (which selects the default: auto, fill, auto), returns the
\* mode the value stands for, and rejects every other string with an error that
\* names its WAYBG_* variable
C23_ParsersAcceptDocumentedAnyCase ==
    /\ call.fn \in ParserNames /\ call.returned
          => /\ \A mode \in ModesOf(call.fn) :
                    call.value \in SpellingsOf(call.fn, mode)
                        => call.out = OkOf(ResolvedMode(call.fn, mode, call.niri))
             /\ (\A mode \in ModesOf(call.fn) :
                    call.value \notin SpellingsOf(call.fn, mode))
                        => ~call.out.ok
    /\ RejectionNamesVariable

\* parse_scale_mode was given the synonym Cover and returned ScaleMode::Fill
C23_CapitalSynonymParsed ==
    /\ call.fn = "parse_scale_mode"
    /\ call.returned
    /\ call.value = <<"C", "o", "v", "e", "r">>
    /\ call.out = OkOf("Fill")

\* the positions of s
Positions(s) == 1..Len(s)

\* x is the element at index i (from 0) of the ascending sort of s: at most i
\* elements are smaller and more than i are not greater
IsOrderStatistic(s, i, x) ==
    /\ \E j \in Positions(s) : s[j] = x
    /\ Cardinality({j \in Positions(s) : s[j] < x}) <= i
    /\ Cardinality({j \in Positions(s) : s[j] <= x}) > i

\* i is (n - 1) * (1 - keep_ratio) rounded to the nearest integer, halves upwards
IsRoundedTailIndex(n, keep_ratio, i) ==
    /\ 200 * i <= 2 * (n - 1) * (100 - keep_ratio) + 100
    /\ 2 * (n - 1) * (100 - keep_ratio) + 100 < 200 * (i + 1)

\* C24: for a non-empty sample list of length n and a keep ratio between 0 and 1
\* percentile_low_fps returns the element at index round((n-1) * (1 - keep_ratio))
\* of the ascending sort, and 0 for an empty list; for a 5-element list keep
\* ratios 0.95 and 0.99 both give the minimum
C24_PercentileIsRankedSample ==
    call.fn = "percentile_low_fps" /\ call.returned
        => LET s == call.samples
               n == Len(s)
           IN  /\ n = 0 => call.out = 0
               /\ n > 0 /\ call.keep_ratio \in 0..100
                     => \E i \in 0..(n - 1) :
                           /\ IsRoundedTailIndex(n, call.keep_ratio, i)
                           /\ IsOrderStatistic(s, i, call.out)
               /\ n = 5 /\ call.keep_ratio \in {95, 99}
                     => \A j \in Positions(s) : call.out <= s[j]

\* the list of the test, given unsorted with keep ratio 0.95, gave its minimum; an
\* index above 0 needs a longer list
C24_MinimumOfFive ==
    /\ call.fn = "percentile_low_fps"
    /\ call.returned
    /\ call.samples = <<120, 90, 60, 45, 30>>
    /\ call.keep_ratio = 95
    /\ call.out = 30

\* the events a step added to the launch log
NewEvents == SubSeq(launch_log', Len(launch_log) + 1, Len(launch_log'))

\* this step is a call of tick that selected a profile
TickSelected ==
    /\ tick_result'.op = "tick"
    /\ tick_result'.n = tick_result.n + 1
    /\ tick_result'.active_profile_name # ""

\* the profile, targets or mute that the tick of this step selected differ from
\* the active ones
SelectionDiffers ==
    \/ IsNot(controller.active_profile_name, tick_result'.active_profile_name)
    \/ IsNot(controller.active_render_signature, tick_result'.active_video)
    \/ IsNot(controller.active_mute, tick_result'.mute)

\* C25: tick terminates the running processes and then calls the launcher for new
\* ones if and only if the selected profile's name, its render-target summary or
\* the mute setting differs from the active one; otherwise it returns
\* changed == false and performs no spawn and no terminate
C25_TickRestartsIffDiffers ==
    [][TickSelected =>
          LET running == controller.running_processes
              count == Len(running)
          IN  /\ SelectionDiffers
                    => /\ Len(NewEvents) > count
                       /\ \A k \in 1..count :
                             /\ NewEvents[k].ev = "terminate"
                             /\ NewEvents[k].id = running[k]
                       /\ NewEvents[count + 1].ev \in {"spawn", "spawn_failed"}
                       /\ tick_result'.ok => tick_result'.changed
              /\ ~SelectionDiffers
                    => /\ tick_result'.ok
                       /\ ~tick_result'.changed
                       /\ launch_log' = launch_log
                       /\ controller' = controller]_vars

\* a tick with the same profile but another mute setting replaced a running
\* process
C25_MuteChangeRestarted ==
    /\ tick_result.op = "tick"
    /\ tick_result.changed
    /\ tick_result.n = 2
    /\ \E k \in 1..Len(launch_log) :
          /\ launch_log[k].ev = "terminate"
          /\ launch_log[k].during = 2
    /\ \E k \in 1..Len(launch_log) :
          /\ launch_log[k].ev = "spawn"
          /\ launch_log[k].during = 1
          /\ launch_log[k].mute # tick_result.mute
          /\ launch_log[k].input = tick_result.active_video[1]

\* the positions of the launch log with a spawn, and those with a terminate
SpawnEvents == {k \in 1..Len(launch_log) : launch_log[k].ev = "spawn"}

TerminateEvents == {k \in 1..Len(launch_log) : launch_log[k].ev = "terminate"}

\* the positions at which process id is terminated
TerminationsOf(id) == {k \in TerminateEvents : launch_log[k].id = id}

\* C26: across any sequence of tick, write_manual_override and shutdown calls no
\* process is terminated twice or before it was spawned, the processes the
\* controller holds are the spawned ones not yet terminated, every process spawned
\* by an earlier tick is terminated before a tick spawns another, and after
\* shutdown every spawned process has been terminated exactly once
C26_EverySpawnTerminatedOnce ==
    /\ \A p \in SpawnEvents :
          /\ Cardinality(TerminationsOf(launch_log[p].id)) <= 1
          /\ \A t \in TerminationsOf(launch_log[p].id) : p < t
          /\ (TerminationsOf(launch_log[p].id) = {})
                <=> \E k \in 1..Len(controller.running_processes) :
                       controller.running_processes[k] = launch_log[p].id
          /\ \A q \in SpawnEvents :
                q < p /\ launch_log[q].during # launch_log[p].during
                    => \E t \in TerminationsOf(launch_log[q].id) : t < p
    /\ \A t \in TerminateEvents :
          \E p \in SpawnEvents : launch_log[p].id = launch_log[t].id
    /\ tick_result.op = "shutdown"
          => /\ Cardinality(TerminateEvents) = Cardinality(SpawnEvents)
             /\ \A p \in SpawnEvents :
                   Cardinality(TerminationsOf(launch_log[p].id)) = 1

\* shutdown after a profile with two targets replaced another profile and after a
\* spawn failed
C26_ShutdownAfterSwitches ==
    /\ tick_result.op = "shutdown"
    /\ Cardinality(SpawnEvents) >= 3
    /\ \E p, q \in SpawnEvents :
          p # q /\ launch_log[p].during = launch_log[q].during
    /\ \E k \in 1..Len(launch_log) : launch_log[k].ev = "spawn_failed"
    /\ \E t \in TerminateEvents : launch_log[t].during = tick_result.n

\* the positions of the profiles of that name in the list of the call
PositionsNamed(name) ==
    {k \in 1..Len(call.config.profiles) : call.config.profiles[k].name = name.v}

\* the positions of the profiles whose schedule is active at the time of the call
PositionsActive ==
    {k \in 1..Len(call.config.profiles) :
        /\ call.config.profiles[k].schedule.some
        /\ is_active(call.config.profiles[k].schedule.v, call.now)}

\* the call returned the profile at the least position of a non-empty set
ReturnedFirstOf(positions) ==
    /\ call.out.some
    /\ \E k \in positions :
          /\ \A j \in positions : k <= j
          /\ call.out.v = call.config.profiles[k]

\* C27: pick_profile returns the profile named by the manual override if there is
\* one; otherwise the first profile in configuration order whose schedule is
\* active now; otherwise the configured default profile if it exists; otherwise
\* the first profile; and nothing only when the profile list is empty
C27_PickProfilePriority ==
    call.fn = "pick_profile" /\ call.returned
        => LET override == call.manual_override
               default == call.config.settings.default_profile
               overridden == override.some /\ PositionsNamed(override) # {}
               scheduled == PositionsActive # {}
               defaulted == default.some /\ PositionsNamed(default) # {}
           IN  /\ overridden => ReturnedFirstOf(PositionsNamed(override))
               /\ ~overridden /\ scheduled => ReturnedFirstOf(PositionsActive)
               /\ ~overridden /\ ~scheduled /\ defaulted
                     => ReturnedFirstOf(PositionsNamed(default))
               /\ ~overridden /\ ~scheduled /\ ~defaulted
                       /\ call.config.profiles # <<>>
                     => ReturnedFirstOf({1})
               /\ ~call.out.some <=> call.config.profiles = <<>>

\* the override named the second profile while the schedule of the first was
\* active, and the second was returned
C27_OverrideBeatsSchedule ==
    /\ call.fn = "pick_profile"
    /\ call.returned
    /\ call.config.profiles = <<DayProfile, NightProfile>>
    /\ call.manual_override = Some("night")
    /\ call.now = [weekday |-> 1, time |-> 600]
    /\ call.out.some
    /\ call.out.v = NightProfile

\* the handler of a size, scale-factor or transform notification ran in this step
GeometryHandled ==
    /\ geometry_events' = geometry_events + 1
    /\ last'.h \in {"configure", "scale_factor_changed", "transform_changed"}

\* the pool entries of surface state s that the compositor holds
Busy(s) == {k \in 1..Len(s.dmabuf_buffers) : ~s.dmabuf_buffers[k].released}

\* the step recorded the geometry of one notification on surface i and left the
\* other two settings alone
GeometryRecorded(i) ==
    LET before == surfaces[i]
        after == surfaces'[i]
    IN  CASE last'.h = "configure" ->
                /\ \E size \in ConfigureSizes :
                      /\ after.width = Max(size[1], 1)
                      /\ after.height = Max(size[2], 1)
                /\ after.scale_factor = before.scale_factor
                /\ after.transform = before.transform
                /\ ~after.first_configure
          [] last'.h = "scale_factor_changed" ->
                /\ \E new_factor \in ScaleFactors :
                      after.scale_factor = Max(new_factor, 1)
                /\ after.width = before.width
                /\ after.height = before.height
                /\ after.transform = before.transform
          [] last'.h = "transform_changed" ->
                /\ after.transform \in Transforms
                /\ after.width = before.width
                /\ after.height = before.height
                /\ after.scale_factor = before.scale_factor

\* what surface i holds after the step was created by the redraw of the step: at
\* most the one pool buffer and the one import the redraw submitted, and a
\* shared-memory buffer only if the redraw drew into one
BuffersRecreated(i) ==
    LET after == surfaces'[i]
    IN  /\ Cardinality(Busy(after)) <= 1
        /\ Cardinality(Busy(after)) = 1 => last'.req.path = "pool"
        /\ Len(after.imported_dmabuf_frames) <= 1
        /\ Len(after.imported_dmabuf_frames) = 1 => last'.req.path = "import"
        /\ after.buffer => last'.req.path = "shm"

\* the step made one redraw of surface i: one read of the mailbox, and one more
\* frame callback exactly if the redraw committed one
OneRedraw(i) ==
    /\ last'.surface = i
    /\ observed' = frame_store.seq
    /\ dispatched' = dispatched + 1
    /\ pending_callbacks'[i] =
          pending_callbacks[i] + (IF last'.req.frame_cb /\ last'.req.commit THEN 1 ELSE 0)
    /\ \A j \in DOMAIN surfaces : j # i => pending_callbacks'[j] = pending_callbacks[j]

\* the geometry of the surfaces other than i is as it was
OthersKeepGeometry(i) ==
    \A j \in DOMAIN surfaces :
        j # i => /\ surfaces'[j].width = surfaces[j].width
                 /\ surfaces'[j].height = surfaces[j].height
                 /\ surfaces'[j].scale_factor = surfaces[j].scale_factor
                 /\ surfaces'[j].transform = surfaces[j].transform
                 /\ surfaces'[j].first_configure = surfaces[j].first_configure

\* C28 as stated: on every size, scale-factor or transform notification for a
\* surface the new geometry is recorded, the surface's shared-memory buffer,
\* zero-copy pool and in-flight imports are discarded, exactly one redraw of the
\* surface is performed and the geometry of the other surfaces is unchanged
C28_GeometryEventDiscardsBuffers ==
    [][GeometryHandled =>
          LET i == last'.surface
          IN  /\ GeometryRecorded(i)
              /\ BuffersRecreated(i)
              /\ OneRedraw(i)
              /\ OthersKeepGeometry(i)]_vars

\* the size of surface i after the step differs from its size before
Resized(i) ==
    \/ surfaces'[i].width # surfaces[i].width
    \/ surfaces'[i].height # surfaces[i].height

\* C28: on every size, scale-factor or transform notification for a surface the
\* new geometry is recorded and exactly one redraw of the surface is performed,
\* the geometry of the other surfaces is unchanged, and the surface's
\* shared-memory buffer, zero-copy pool and in-flight imports are discarded on a
\* scale-factor or transform notification and on a size notification whose size
\* differs from the recorded one
C28_GeometryChangeDiscardsBuffers ==
    [][GeometryHandled =>
          LET i == last'.surface
          IN  /\ GeometryRecorded(i)
              /\ last'.h # "configure" \/ Resized(i) => BuffersRecreated(i)
              /\ OneRedraw(i)
              /\ OthersKeepGeometry(i)]_vars

\* a scale-factor notification arrived for a surface with a pool buffer held by
\* the compositor, and the redraw filled a buffer of a new pool
C28_PoolRecreatedOnScale ==
    /\ last.h = "scale_factor_changed"
    /\ last.ok
    /\ last.req.path = "pool"
    /\ geometry_events > Len(surfaces)
    /\ Cardinality(Busy(surfaces[last.surface])) = 1
    /\ surfaces[last.surface].scale_factor = 2

\* the step is a handler call whose redraw returned success
RedrawSucceeded ==
    /\ dispatched' = dispatched + 1
    /\ last'.h \in {"configure", "scale_factor_changed", "transform_changed", "frame",
                    "released"}
    /\ last'.req.path # "none"
    /\ last'.ok

\* every surface that has been configured, and so drawn, has a frame callback
\* pending unless exit was requested
DrawnSurfacesAwaitCallback ==
    ~exit => \A i \in DOMAIN surfaces :
                ~surfaces[i].first_configure => pending_callbacks[i] >= 1

\* C29: every redraw that returns success, including one deferred for lack of a
\* free pool buffer or of in-flight import capacity and one that fell back from
\* zero-copy to shared memory, requests exactly one new frame callback and
\* commits the surface, so that a surface that has drawn once has a callback
\* pending for as long as the renderer has not been asked to exit
C29_SuccessfulRedrawRequestsCallback ==
    /\ []DrawnSurfacesAwaitCallback
    /\ [][RedrawSucceeded =>
             LET i == last'.surface
                 consumed == IF last'.h = "frame" THEN 1 ELSE 0
             IN  /\ last'.req.frame_cb
                 /\ last'.req.commit
                 /\ pending_callbacks'[i] = pending_callbacks[i] - consumed + 1
                 /\ pending_callbacks'[i] >= 1
                 /\ \A j \in DOMAIN surfaces :
                       j # i => pending_callbacks'[j] = pending_callbacks[j]]_vars

\* a redraw was deferred because three imports were in flight, and the surface
\* still has a callback pending
C29_DeferredRedrawKeepsCallback ==
    /\ last.h = "frame"
    /\ last.ok
    /\ last.req.path = "import_deferred"
    /\ Len(surfaces[last.surface].imported_dmabuf_frames)
          = MAX_IMPORTED_DMABUF_IN_FLIGHT
    /\ pending_callbacks[last.surface] >= 1

\* the step is a call of DmabufHandler::released that found the buffer
ReleaseHandled ==
    /\ dispatched' = dispatched + 1
    /\ last'.h = "released"

\* the most recent handler call drew surface i and attached a buffer, so that no
\* redraw of the surface is waiting for a buffer
NothingDeferred(i) ==
    /\ last.surface = i
    /\ last.ok
    /\ last.req.attach \in {"pool", "import", "shm"}

\* surface i after the step is surface i before it with one busy pool entry
\* marked released or with one import removed from the in-flight list
OneBufferReleased(i) ==
    \/ \E k \in Busy(surfaces[i]) :
          surfaces'[i] = [surfaces[i] EXCEPT !.dmabuf_buffers[k].released = TRUE]
    \/ \E k \in 1..Len(surfaces[i].imported_dmabuf_frames) :
          surfaces'[i] =
              [surfaces[i] EXCEPT
                  !.imported_dmabuf_frames =
                      SwapRemove(surfaces[i].imported_dmabuf_frames, k)]

\* C30: on a zero-copy buffer release notification exactly the matching pool entry
\* is marked free or exactly the matching imported buffer is removed, no other
\* surface changes, and the surface is redrawn only if a redraw had been deferred
\* and neither exit nor stop has been requested
C30_ReleaseRedrawsOnlyDeferred ==
    [][ReleaseHandled =>
          LET i == last'.surface
              redrawn == last'.req.path # "none"
          IN  /\ redrawn => ~NothingDeferred(i) /\ ~exit /\ ~stop
              /\ ~redrawn
                    => /\ OneBufferReleased(i)
                       /\ \A j \in DOMAIN surfaces : j # i => surfaces'[j] = surfaces[j]
                       /\ pending_callbacks' = pending_callbacks]_vars

\* surface state s holds no buffer of any transport
HoldsNoBuffer(s) ==
    /\ ~s.buffer
    /\ Busy(s) = {}
    /\ s.imported_dmabuf_frames = <<>>

\* C31: no buffer is attached to or committed on a layer surface before the
\* surface has received its first configure event, whatever order the size,
\* scale-factor and transform notifications arrive in (a surface awaiting its
\* first configure holds no buffer, has no frame callback pending and is not the
\* surface the last handler attached a buffer to), and first_configure never
\* returns to true
C31_NoBufferBeforeFirstConfigure ==
    /\ [](\A i \in DOMAIN surfaces :
             surfaces[i].first_configure
                => /\ HoldsNoBuffer(surfaces[i])
                   /\ pending_callbacks[i] = 0
                   /\ ~(last.surface = i /\ last.req.commit))
    /\ [][\A i \in DOMAIN surfaces :
             ~surfaces[i].first_configure
                => i \in DOMAIN surfaces' /\ ~surfaces'[i].first_configure]_vars

\* the step is a handler call on surface i
HandledOn(i) ==
    /\ dispatched' = dispatched + 1
    /\ last'.surface = i

\* pool q is pool p after pixels were written into one released entry of p and
\* the entry was attached: its flag is cleared and no other entry changed
WrittenInto(p, q) ==
    \E k \in 1..Len(p) :
        /\ p[k].released
        /\ q = [p EXCEPT ![k].released = FALSE]

\* pool q is pool p after the release notification of one entry the compositor held
ReleasedFrom(p, q) ==
    \E k \in 1..Len(p) :
        /\ ~p[k].released
        /\ q = [p EXCEPT ![k].released = TRUE]

\* the step discarded the buffers of surface i before its redraw, or the redraw
\* found no pool or a pool of another size: the pool after the step is made of
\* buffers created in the step
PoolCreated(i) ==
    /\ HandledOn(i)
    /\ \/ last'.h \in {"scale_factor_changed", "transform_changed"}
       \/ last'.h = "configure" /\ Resized(i)
       \/ surfaces[i].dmabuf_buffers = <<>>
       \/ surfaces'[i].buffer_width # surfaces[i].buffer_width
       \/ surfaces'[i].buffer_height # surfaces[i].buffer_height
    /\ Len(surfaces'[i].dmabuf_buffers) = DMABUF_POOL_SIZE
    /\ \A k \in 1..DMABUF_POOL_SIZE :
          ~surfaces'[i].dmabuf_buffers[k].released
              => /\ last'.req.attach = "pool"
                 /\ Busy(surfaces'[i]) = {k}

\* what a step may do to the pool of surface i
PoolStep(i) ==
    LET p == surfaces[i].dmabuf_buffers
        q == surfaces'[i].dmabuf_buffers
        released_here == HandledOn(i) /\ last'.h = "released"
        attached_here == HandledOn(i) /\ last'.req.attach = "pool"
    IN  \/ q = p /\ ~attached_here
        \/ q = <<>> /\ ~attached_here
        \/ PoolCreated(i)
        \/ attached_here /\ ~released_here /\ WrittenInto(p, q)
        \/ released_here /\ ~attached_here /\ ReleasedFrom(p, q)
        \/ released_here /\ attached_here
              /\ \E r \in [1..Len(p) -> [released : BOOLEAN]] :
                    ReleasedFrom(p, r) /\ WrittenInto(r, q)

\* C32: the renderer writes pixels only into a pool buffer whose released flag is
\* true and clears the flag when it attaches the buffer, and the flag of an
\* attached buffer becomes true again only through the release notification for
\* that buffer: every step leaves a surface's pool as it was, drops it, replaces
\* it by newly created buffers, clears the flag of one released entry in a redraw
\* that attaches a pool buffer, or sets the flag of one held entry in the release
\* handler (which may then write into a released entry)
C32_PoolWritesOnlyReleased ==
    [][\A i \in DOMAIN surfaces : i \in DOMAIN surfaces' => PoolStep(i)]_vars

\* a release notification arrived while the compositor held both buffers of the
\* pool, and the redraw wrote into the buffer just released
C32_ReleasedBufferReused ==
    /\ last.h = "released"
    /\ last.ok
    /\ last.req.attach = "pool"
    /\ Cardinality(Busy(surfaces[last.surface])) = DMABUF_POOL_SIZE

\* the step is a handler call that redrew a surface
RedrawHandled ==
    /\ dispatched' = dispatched + 1
    /\ last'.req.path # "none"

\* C33: when the mailbox is empty at a redraw, the redraw takes the
\* shared-memory or the zero-copy pool path, never the direct import, and the
\* buffer it submits is solid opaque black, with and without compositor-assisted
\* scaling; a successful redraw that is not deferred submits such a buffer
C33_EmptyMailboxDrawsBlack ==
    [][RedrawHandled /\ frame_store.kind = "None"
          => /\ last'.req.path \in {"shm", "pool", "pool_deferred"}
             /\ last'.req.attach # "none" => last'.req.content = 0
             /\ last'.ok /\ last'.req.path # "pool_deferred"
                   => /\ last'.req.attach = last'.req.path
                      /\ last'.req.commit]_vars

\* the first configure arrived before any frame was decoded, and the redraw
\* submitted a black pool buffer for the compositor to scale
C33_BlackPoolBufferScaled ==
    /\ last.h = "configure"
    /\ last.ok
    /\ frame_store.kind = "None"
    /\ decoded = 0
    /\ last.req.attach = "pool"
    /\ last.req.content = 0
    /\ use_compositor_scaling(surfaces[last.surface], args.scale_mode)

\* C34 as stated: whenever the mailbox holds a frame (CPU or imported) at a redraw
\* that submits a buffer, the submitted content is derived from that frame, on
\* every transport path and for every combination of zero-copy enabled or
\* disabled, compositor scaling available or not and scale policy; solid black is
\* submitted only when the mailbox is empty
C34_SubmittedContentIsMailboxFrame ==
    [][RedrawHandled /\ last'.req.attach # "none"
          => /\ frame_store.kind # "None" => last'.req.content = frame_store.seq
             /\ last'.req.content = 0 => frame_store.kind = "None"]_vars

\* C35 as stated: when the mailbox holds an imported frame that cannot be
\* converted to a CPU frame and the redraw takes the shared-memory path, the
\* redraw is not skipped and the surface keeps showing the CPU frame that the
\* previous redraw of the surface submitted
C35_UnconvertibleKeepsPreviousFrame ==
    [][(/\ RedrawHandled
        /\ last'.ok
        /\ last'.req.path = "shm"
        /\ frame_store.kind = "Dmabuf"
        /\ ~dmabuf_frame_to_video_frame(frame_store)
        /\ last.surface = last'.surface
        /\ last.req.attach = "shm"
        /\ last.req.content > 0)
          => /\ last'.req.attach = "shm"
             /\ last'.req.commit
             /\ last'.req.content = last.req.content]_vars

\* C36 as stated: converting a decoder sample whose layout metadata reports zero
\* planes or more than GST_VIDEO_MAX_PLANES planes fails: no frame payload,
\* imported or CPU, is produced from the sample and the mailbox and the metrics
\* are left as they were; and every imported buffer in the mailbox has between 1
\* and GST_VIDEO_MAX_PLANES planes
C36_InvalidPlaneCountFails ==
    /\ [](frame_store.kind = "Dmabuf"
             => frame_store.n_planes \in 1..GST_VIDEO_MAX_PLANES)
    /\ [][decoded' = decoded + 1 /\ limits.samples \subseteq MalformedSamples
             => /\ frame_store' = frame_store
                /\ latest' = latest
                /\ recorder' = recorder
                /\ metrics_file' = metrics_file]_vars

\* the entries of a log
Entries(log) == {log[k] : k \in DOMAIN log}

\* how often wl_buffer b was destroyed
DestroysOf(b) == Cardinality({k \in DOMAIN call.destroys : call.destroys[k] = b})

C38_OneCallbackOutstanding ==
    \A i \in DOMAIN pending_callbacks : pending_callbacks[i] <= 1

\* C39 as stated: once a handler has recorded a fatal error or exit has been
\* requested, no later event handled by the render thread performs a redraw or
\* overwrites the recorded error
C39_NoRedrawAfterFatal ==
    [][dispatched' = dispatched + 1 /\ (exit \/ fatal_error.some)
          => /\ last'.req.path = "none"
             /\ fatal_error' = fatal_error]_vars

\* the spawn of process id in the launch log
SpawnOf(id) == CHOOSE p \in SpawnEvents : launch_log[p].id = id

\* the targets the running processes were spawned for, in the order of
\* running_processes
RunningTargets ==
    [k \in 1..Len(controller.running_processes) |->
        [output |-> launch_log[SpawnOf(controller.running_processes[k])].output,
         video |-> launch_log[SpawnOf(controller.running_processes[k])].input]]

\* C40 as stated: after every tick, successful or failed, the recorded active
\* profile and the running processes agree: with a profile recorded as active one
\* process per render target of it is running, spawned in target order with the
\* target's output and video and the active mute setting, and with no profile
\* recorded nothing runs; in particular no profile stays recorded as active while
\* nothing is running after a spawn failed
C40_ActiveProfileHasProcesses ==
    tick_result.op = "tick"
       => IF controller.active_profile_name.some
          THEN /\ controller.running_processes # <<>>
               /\ summarize_render_targets(RunningTargets)
                     = controller.active_render_signature.v
               /\ \A k \in 1..Len(controller.running_processes) :
                     /\ launch_log[SpawnOf(controller.running_processes[k])].mute
                           = controller.active_mute.v
                     /\ k > 1 => controller.running_processes[k - 1]
                                    < controller.running_processes[k]
          ELSE controller.running_processes = <<>>

====
